---- MODULE Spec2Model ----
(***************************************************************************)
(* CalDAV/CardDAV sub-application of namgun-workspace                      *)
(* (backend/app/dav): path resolver, Basic auth gate, dispatcher and the   *)
(* PROPFIND / REPORT / GET / PUT / DELETE / OPTIONS handlers over the      *)
(* calendar-event and contact tables, with the iCalendar and vCard codecs  *)
(* and the ETag / ctag fingerprints.                                       *)
(*                                                                         *)
(* Strings that the code takes apart (paths, hrefs, ids, credentials) are  *)
(* sequences of symbols; a symbol is "/", ":", an extension such as ".ics" *)
(* or a run of characters that no operation cuts.  Opaque texts (titles,   *)
(* notes, ...) are strings.                                                *)
(***************************************************************************)
EXTENDS Integers, Sequences, FiniteSets, TLC

VARIABLES events, contacts, now, last, putEtag, resolved, tasks

vars == <<events, contacts, now, last, putEtag, resolved, tasks>>

\* Python None / an absent header, key or column value.
NoVal == "None"

\* The empty mapping {} (a dict with no keys).
EmptyMap == [k \in {} |-> NoVal]

\* Largest value of the wall clock (writes stop when it is reached).
MaxClock == 2

-----------------------------------------------------------------------------
\* Character strings

\* a + b for str
Cat(a, b) == a \o b

RECURSIVE JoinWith(_, _)
\* sep.join(segs)
JoinWith(sep, segs) ==
    IF Len(segs) = 0 THEN <<>>
    ELSE IF Len(segs) = 1 THEN segs[1]
    ELSE segs[1] \o sep \o JoinWith(sep, Tail(segs))

\* s.startswith(p)
StartsWith(s, p) == Len(s) >= Len(p) /\ SubSeq(s, 1, Len(p)) = p

\* s.endswith(p)
EndsWith(s, p) == Len(s) >= Len(p) /\ SubSeq(s, Len(s) - Len(p) + 1, Len(s)) = p

RECURSIVE LStrip(_, _)
LStrip(s, c) == IF Len(s) > 0 /\ s[1] = c THEN LStrip(Tail(s), c) ELSE s

RECURSIVE RStrip(_, _)
RStrip(s, c) ==
    IF Len(s) > 0 /\ s[Len(s)] = c THEN RStrip(SubSeq(s, 1, Len(s) - 1), c) ELSE s

\* s.strip(c)
Strip(s, c) == RStrip(LStrip(s, c), c)

RECURSIVE SplitAcc(_, _, _)
SplitAcc(s, c, cur) ==
    IF Len(s) = 0 THEN <<cur>>
    ELSE IF s[1] = c THEN <<cur>> \o SplitAcc(Tail(s), c, <<>>)
    ELSE SplitAcc(Tail(s), c, Append(cur, s[1]))

\* s.split(c) for a one-character separator
SplitChar(s, c) == SplitAcc(s, c, <<>>)

SLASH == "/"
EXT_ICS == <<".ics">>
EXT_VCF == <<".vcf">>

s_principals == <<"principals">>
s_calendars == <<"calendars">>
s_addressbooks == <<"addressbooks">>

\* Lower-casing and upper-casing of the words the codecs convert.
Lower(s) ==
    CASE s \in {"CONFIRMED", "Confirmed", "confirmed"} -> "confirmed"
      [] s \in {"TENTATIVE", "Tentative", "tentative"} -> "tentative"
      [] s \in {"CANCELLED", "Cancelled", "cancelled"} -> "cancelled"
      [] s \in {"HOME", "Home", "home"} -> "home"
      [] s \in {"WORK", "Work", "work"} -> "work"
      [] s \in {"CELL", "Cell", "cell"} -> "cell"
      [] OTHER -> s

Upper(s) ==
    CASE s \in {"CONFIRMED", "Confirmed", "confirmed"} -> "CONFIRMED"
      [] s \in {"TENTATIVE", "Tentative", "tentative"} -> "TENTATIVE"
      [] s \in {"CANCELLED", "Cancelled", "cancelled"} -> "CANCELLED"
      [] s \in {"HOME", "Home", "home"} -> "HOME"
      [] s \in {"WORK", "Work", "work"} -> "WORK"
      [] s \in {"CELL", "Cell", "cell"} -> "CELL"
      [] OTHER -> s

\* Python truthiness of an optional text
Truthy(v) == v # NoVal /\ v # ""

-----------------------------------------------------------------------------
\* Path resolver

\* The resolver without the filter that drops empty segments.
_parse_path_keeps_empty(path) ==
    LET parts == SplitChar(Strip(path, SLASH), SLASH)
        n == IF parts = <<<<>>>> THEN 0 ELSE Len(parts)
    IN  IF n = 0 THEN [type |-> "root"]
        ELSE IF parts[1] = s_principals /\ n = 2
            THEN [type |-> "principal", username |-> parts[2]]
        ELSE IF parts[1] = s_calendars /\ n = 2
            THEN [type |-> "cal-home", username |-> parts[2]]
        ELSE IF parts[1] = s_calendars /\ n = 3
            THEN [type |-> "calendar", username |-> parts[2], col |-> parts[3]]
        ELSE IF parts[1] = s_calendars /\ n = 4 /\ EndsWith(parts[4], EXT_ICS)
            THEN [type |-> "event", username |-> parts[2], col |-> parts[3],
                  rid |-> SubSeq(parts[4], 1, Len(parts[4]) - Len(EXT_ICS))]
        ELSE IF parts[1] = s_addressbooks /\ n = 2
            THEN [type |-> "ab-home", username |-> parts[2]]
        ELSE IF parts[1] = s_addressbooks /\ n = 3
            THEN [type |-> "addressbook", username |-> parts[2], col |-> parts[3]]
        ELSE IF parts[1] = s_addressbooks /\ n = 4 /\ EndsWith(parts[4], EXT_VCF)
            THEN [type |-> "contact", username |-> parts[2], col |-> parts[3],
                  rid |-> SubSeq(parts[4], 1, Len(parts[4]) - Len(EXT_VCF))]
        ELSE [type |-> "unknown"]

\* _parse_path: segments split on "/", empty ones dropped, then matched.
_parse_path(path) ==
    LET parts == SelectSeq(SplitChar(Strip(path, SLASH), SLASH), LAMBDA p : p # <<>>)
        n == Len(parts)
    IN  IF n = 0 THEN [type |-> "root"]
        ELSE IF parts[1] = s_principals /\ n = 2
            THEN [type |-> "principal", username |-> parts[2]]
        ELSE IF parts[1] = s_calendars /\ n = 2
            THEN [type |-> "cal-home", username |-> parts[2]]
        ELSE IF parts[1] = s_calendars /\ n = 3
            THEN [type |-> "calendar", username |-> parts[2], col |-> parts[3]]
        ELSE IF parts[1] = s_calendars /\ n = 4 /\ EndsWith(parts[4], EXT_ICS)
            THEN [type |-> "event", username |-> parts[2], col |-> parts[3],
                  rid |-> SubSeq(parts[4], 1, Len(parts[4]) - Len(EXT_ICS))]
        ELSE IF parts[1] = s_addressbooks /\ n = 2
            THEN [type |-> "ab-home", username |-> parts[2]]
        ELSE IF parts[1] = s_addressbooks /\ n = 3
            THEN [type |-> "addressbook", username |-> parts[2], col |-> parts[3]]
        ELSE IF parts[1] = s_addressbooks /\ n = 4 /\ EndsWith(parts[4], EXT_VCF)
            THEN [type |-> "contact", username |-> parts[2], col |-> parts[3],
                  rid |-> SubSeq(parts[4], 1, Len(parts[4]) - Len(EXT_VCF))]
        ELSE [type |-> "unknown"]

\* _href: root_path + "/" + "/".join(segments) + "/"
_href(root_path, segments) ==
    root_path \o <<SLASH>> \o JoinWith(<<SLASH>>, segments) \o <<SLASH>>

\* _href_res: the same without the trailing slash
_href_res(root_path, segments) ==
    root_path \o <<SLASH>> \o JoinWith(<<SLASH>>, segments)

-----------------------------------------------------------------------------
\* The store: users, calendars and address books are provisioned by the rest
\* of the application; the DAV handlers only write events and contacts.

s_alice == <<"alice">>
s_bob == <<"bob">>
s_carol == <<"carol">>
s_dave == <<"dave">>
s_eve == <<"eve">>

pw_alice == <<"pa">>
pw_bob == <<"p",":","b">>
pw_carol == <<"pc">>
pw_dave == <<"pd">>

\* hash_password: the stored hash of a password (one-way, collision-free).
hash_password(pw) == <<"hash", pw>>

\* verify_password(password, password_hash)
verify_password(password, password_hash) == password_hash = hash_password(password)

NoHash == <<"nohash">>

Users == {
    [id |-> "u1", username |-> s_alice, is_active |-> TRUE,
     password_hash |-> hash_password(pw_alice)],
    [id |-> "u2", username |-> s_bob, is_active |-> TRUE,
     password_hash |-> hash_password(pw_bob)],
    [id |-> "u3", username |-> s_carol, is_active |-> FALSE,
     password_hash |-> hash_password(pw_carol)],
    [id |-> "u4", username |-> s_dave, is_active |-> TRUE,
     password_hash |-> NoHash] }

UserNamed(un) == CHOOSE u \in Users : u.username = un

id_ka == <<"ka">>
id_kw == <<"kw">>
id_kb == <<"kb">>
id_ba == <<"ba">>
id_bb == <<"bb">>
id_e1 == <<"e1">>
id_e2 == <<"e2">>
id_c1 == <<"c1">>
id_c2 == <<"c2">>
id_zz == <<"zz">>

\* CalendarDB rows by primary key.
Calendars ==
    (id_ka :> [id |-> id_ka, user_id |-> "u1", name |-> "Personal",
               color |-> "#3b82f6", sort_order |-> 0])
 @@ (id_kw :> [id |-> id_kw, user_id |-> "u1", name |-> "Work",
               color |-> NoVal, sort_order |-> 1])
 @@ (id_kb :> [id |-> id_kb, user_id |-> "u2", name |-> "Bob",
               color |-> NoVal, sort_order |-> 0])

\* AddressBookDB rows by primary key.
AddressBooks ==
    (id_ba :> [id |-> id_ba, user_id |-> "u1", name |-> "Contacts"])
 @@ (id_bb :> [id |-> id_bb, user_id |-> "u2", name |-> "Friends"])

\* The database as one value (what a handler's session sees).
DB(ev, ct, t) ==
    [users |-> Users, calendars |-> Calendars, books |-> AddressBooks,
     events |-> ev, contacts |-> ct, now |-> t]

\* Collation rank of the texts that queries order by.
TextRank(s) ==
    CASE s = "" -> 0
      [] s = "Bob" -> 1
      [] s = "Contacts" -> 2
      [] s = "Friends" -> 3
      [] s = "Jane Doe" -> 4
      [] s = "John Roe" -> 5
      [] s = "Personal" -> 6
      [] s = "Review" -> 7
      [] s = "Standup" -> 8
      [] s = "Work" -> 9
      [] OTHER -> 10

RECURSIVE OrderBy(_, _)
\* ORDER BY key: the rows of S as a list in ascending key order.
OrderBy(S, key) ==
    IF S = {} THEN <<>>
    ELSE LET m == CHOOSE x \in S : \A y \in S : key[x] <= key[y]
         IN  <<m>> \o OrderBy(S \ {m}, key)

-----------------------------------------------------------------------------
\* Auth gate (dav/auth.py)

\* An Authorization header value: absent, or a scheme prefix followed by a
\* token; the token either fails base64/UTF-8 decoding or decodes to a text.
NoHeader == [present |-> FALSE, prefix |-> "", b64ok |-> FALSE, decoded |-> <<>>]

BasicHeader(text) ==
    [present |-> TRUE, prefix |-> "Basic ", b64ok |-> TRUE, decoded |-> text]

\* base64(username ":" password)
Credentials(un, pw) == BasicHeader(un \o <<":">> \o pw)

RECURSIVE IndexOf(_, _, _)
\* position of the first c in s at or after i, 0 when there is none
IndexOf(s, c, i) ==
    IF i > Len(s) THEN 0 ELSE IF s[i] = c THEN i ELSE IndexOf(s, c, i + 1)

\* authenticate_dav without the is_active test
authenticate_dav_any_status(authorization, db) ==
    IF ~authorization.present \/ authorization.prefix # "Basic " THEN {}
    ELSE IF ~authorization.b64ok THEN {}
    ELSE LET decoded == authorization.decoded
             colon == IndexOf(decoded, ":", 1)
         IN  IF colon = 0 THEN {}
             ELSE LET username == SubSeq(decoded, 1, colon - 1)
                      password == SubSeq(decoded, colon + 1, Len(decoded))
                      found == {u \in db.users : u.username = username}
                  IN  {u \in found :
                          /\ u.password_hash # NoHash
                          /\ verify_password(password, u.password_hash)}

\* authenticate_dav: the User row, or the empty set for None.
authenticate_dav(authorization, db) ==
    IF ~authorization.present \/ authorization.prefix # "Basic " THEN {}
    ELSE IF ~authorization.b64ok THEN {}
    ELSE LET decoded == authorization.decoded
             colon == IndexOf(decoded, ":", 1)
         IN  IF colon = 0 THEN {}
             ELSE LET username == SubSeq(decoded, 1, colon - 1)
                      password == SubSeq(decoded, colon + 1, Len(decoded))
                      found == {u \in db.users : u.username = username}
                  IN  {u \in found :
                          /\ u.is_active
                          /\ u.password_hash # NoHash
                          /\ verify_password(password, u.password_hash)}

-----------------------------------------------------------------------------
\* Fingerprints (dav/service.py)

\* None for a datetime column or dict entry
NoTime == -1

\* Hours in a day: datetimes are hours since an epoch, dates are day numbers.
DayLen == 24

\* datetime.isoformat()
isoformat(t) == <<"iso", t>>

\* hashlib.md5(raw).hexdigest(): a digest names its input, no collisions.
md5(raw) == <<"md5", raw>>

\* compute_etag over the row id alone
compute_etag_of_id(row_id, updated_at) == md5(<<row_id, <<>> >>)

\* compute_etag: md5 of "<row_id>:<updated_at.isoformat() or ''>"
compute_etag(row_id, updated_at) ==
    md5(<<row_id, IF updated_at # NoTime THEN isoformat(updated_at) ELSE <<>> >>)

\* f'"{etag}"'
Quoted(etag) == <<"dquote", etag>>

\* the ctag of a collection without children
CTAG_EMPTY == <<"empty">>

\* SELECT max(updated_at) over a set of rows (None when there is none)
MaxUpdatedAt(rows) ==
    IF rows = {} THEN NoTime
    ELSE CHOOSE t \in {r.updated_at : r \in rows} :
             \A r \in rows : r.updated_at <= t

RowsOf(table) == {table[i] : i \in DOMAIN table}

\* calendar_ctag from the time of the request instead of max(updated_at)
calendar_ctag_of_clock(db, calendar_id) ==
    IF {e \in RowsOf(db.events) : e.calendar_id = calendar_id} # {}
    THEN md5(isoformat(db.now)) ELSE CTAG_EMPTY

\* calendar_ctag
calendar_ctag(db, calendar_id) ==
    LET mx == MaxUpdatedAt({e \in RowsOf(db.events) : e.calendar_id = calendar_id})
    IN  IF mx # NoTime THEN md5(isoformat(mx)) ELSE CTAG_EMPTY

\* addressbook_ctag
addressbook_ctag(db, book_id) ==
    LET mx == MaxUpdatedAt({c \in RowsOf(db.contacts) : c.address_book_id = book_id})
    IN  IF mx # NoTime THEN md5(isoformat(mx)) ELSE CTAG_EMPTY

-----------------------------------------------------------------------------
\* iCalendar codec (dav/ical_utils.py)
\*
\* An iCalendar text is its list of VEVENT components, each a mapping from
\* property name to value; a text that the parser rejects is "garbage".
\* DTSTART/DTEND values are a DATE (day number) or a DATE-TIME (hour, with
\* tz "UTC" or "NONE" for a floating time).

MapGet(m, k, default) == IF k \in DOMAIN m THEN m[k] ELSE default

Opt(cond, k, v) == IF cond THEN k :> v ELSE EmptyMap

ICalText(vevents) == [kind |-> "ical", comps |-> vevents]
VCardText(props) == [kind |-> "vcard", props |-> props]
GarbageText == [kind |-> "garbage"]

DateValue(day) == [k |-> "DATE", day |-> day, t |-> day * DayLen, tz |-> "NONE"]
DateTimeValue(t, tz) == [k |-> "DATETIME", day |-> t \div DayLen, t |-> t, tz |-> tz]

\* event_to_ical
event_to_ical(ev) ==
    LET dt(t) == IF ev.all_day THEN DateValue(t \div DayLen)
                 ELSE DateTimeValue(t, "UTC")
    IN  ICalText(<<
               ("uid" :> ev.id)
            @@ ("summary" :> (IF Truthy(ev.title) THEN ev.title ELSE ""))
            @@ Opt(Truthy(ev.description), "description", ev.description)
            @@ Opt(Truthy(ev.location), "location", ev.location)
            @@ ("dtstart" :> dt(ev.start))
            @@ ("dtend" :> dt(ev.end))
            @@ Opt(Truthy(ev.status), "status", Upper(ev.status))
            @@ Opt(ev.updated_at # NoTime, "last-modified", ev.updated_at)
            @@ Opt(ev.updated_at # NoTime, "dtstamp", ev.updated_at)
        >>)

\* ical_to_event_data: the set holding the dict of the first VEVENT, or the
\* empty set for None.
ical_to_event_data(ical_text) ==
    IF ical_text.kind # "ical" THEN {}
    ELSE IF ical_text.comps = <<>> THEN {}
    ELSE LET c == ical_text.comps[1]
             has(k) == k \in DOMAIN c
             \* a date becomes midnight UTC; a naive datetime becomes UTC
             instant(v) == IF v.k = "DATE" THEN v.day * DayLen ELSE v.t
         IN  {   Opt(has("uid") /\ MapGet(c, "uid", <<>>) # <<>>, "uid", c["uid"])
              @@ ("title" :> (IF has("summary") /\ Truthy(c["summary"])
                              THEN c["summary"] ELSE ""))
              @@ Opt(has("description") /\ Truthy(MapGet(c, "description", NoVal)),
                     "description", c["description"])
              @@ Opt(has("location") /\ Truthy(MapGet(c, "location", NoVal)),
                     "location", c["location"])
              @@ (IF has("dtstart")
                  THEN ("all_day" :> (c["dtstart"].k = "DATE"))
                       @@ ("start" :> instant(c["dtstart"]))
                  ELSE EmptyMap)
              @@ Opt(has("dtend"), "end", instant(c["dtend"]))
              @@ Opt(has("status") /\ Truthy(MapGet(c, "status", NoVal)),
                     "status", Lower(c["status"])) }

-----------------------------------------------------------------------------
\* vCard codec (dav/vcard_utils.py)
\*
\* A vCard text is a mapping from property name to value: fn, note are texts,
\* n is [given, family], org is a list, email/tel/adr are lists of entries
\* [type, value] where type is None when the line has no TYPE parameter.

\* json.dumps of a list, and the column value None
JsonDumps(list) == <<"json", list>>
JsonLoads(text) == text[2]
JsonNone == <<>>

\* entries of a JSON list column as TYPE-carrying vCard lines
TypedLines(column) ==
    IF column = JsonNone THEN <<>>
    ELSE LET items == JsonLoads(column)
         IN  [i \in 1..Len(items) |->
                 [type |-> Upper(MapGet(items[i], "type", "HOME")),
                  value |-> MapGet(items[i], "value", "")]]

\* contact_to_vcard
contact_to_vcard(c) ==
    VCardText(
           ("fn" :> (IF Truthy(c.full_name) THEN c.full_name ELSE ""))
        @@ ("n" :> [family |-> IF Truthy(c.surname) THEN c.surname ELSE "",
                    given |-> IF Truthy(c.given_name) THEN c.given_name ELSE ""])
        @@ ("uid" :> c.id)
        @@ Opt(Truthy(c.organization), "org", <<c.organization>>)
        @@ Opt(TypedLines(c.emails) # <<>>, "email", TypedLines(c.emails))
        @@ Opt(TypedLines(c.phones) # <<>>, "tel", TypedLines(c.phones))
        @@ Opt(TypedLines(c.addresses) # <<>>, "adr", TypedLines(c.addresses))
        @@ Opt(Truthy(c.notes), "note", c.notes)
        @@ Opt(c.updated_at # NoTime, "rev", c.updated_at))

\* _param_lower
_param_lower(obj, fallback) ==
    IF ~Truthy(obj.type) THEN fallback ELSE Lower(obj.type)

\* the list comprehension over v.contents.get(tag, [])
TypedEntries(props, tag) ==
    LET lines == MapGet(props, tag, <<>>)
    IN  [i \in 1..Len(lines) |->
            [type |-> _param_lower(lines[i], "home"), value |-> lines[i].value]]

\* vcard_to_contact_data: the set holding the dict, or the empty set for None.
vcard_to_contact_data(vcard_text) ==
    IF vcard_text.kind = "garbage" THEN {}
    ELSE IF vcard_text.kind # "vcard" THEN {EmptyMap}
    ELSE LET v == vcard_text.props
             has(k) == k \in DOMAIN v
             orNone(x) == IF Truthy(x) THEN x ELSE NoVal
         IN  {   Opt(has("uid") /\ MapGet(v, "uid", <<>>) # <<>>, "uid", v["uid"])
              @@ Opt(has("fn"), "name", v["fn"])
              @@ (IF has("n")
                  THEN ("first_name" :> orNone(v["n"].given))
                       @@ ("last_name" :> orNone(v["n"].family))
                  ELSE EmptyMap)
              @@ Opt(has("org"), "organization",
                     IF MapGet(v, "org", <<>>) # <<>> THEN v["org"][1] ELSE NoVal)
              @@ Opt(TypedEntries(v, "email") # <<>>, "emails", TypedEntries(v, "email"))
              @@ Opt(TypedEntries(v, "tel") # <<>>, "phones", TypedEntries(v, "tel"))
              @@ Opt(TypedEntries(v, "adr") # <<>>, "addresses", TypedEntries(v, "adr"))
              @@ Opt(has("note"), "notes", v["note"]) }

-----------------------------------------------------------------------------
\* Store adapter (dav/service.py).  A lookup returns the set holding the row,
\* or the empty set for None.  db.now is the latest time the clock has shown;
\* a flush that writes a row reads a later time.

\* Column defaults of the ORM on flush: updated_at is stamped when a row is
\* inserted and when an UPDATE with a net change is emitted.
FlushInsert(row, t) == [row EXCEPT !.updated_at = t]

FlushUpdate(old, new, t) == IF new = old THEN old ELSE [new EXCEPT !.updated_at = t]

\* db.get(Model, pk)
DbGet(table, pk) == IF pk \in DOMAIN table THEN {table[pk]} ELSE {}

\* the table with row stored under its primary key
DbPut(table, row) == [i \in DOMAIN table \cup {row.id} |-> IF i = row.id THEN row ELSE table[i]]

\* the table without the row of that primary key
DbDelete(table, pk) == [i \in DOMAIN table \ {pk} |-> table[i]]

\* get_user_calendars: ORDER BY sort_order, name
get_user_calendars(db, user_id) ==
    LET rows == {c \in RowsOf(db.calendars) : c.user_id = user_id}
    IN  OrderBy(rows, [c \in rows |-> c.sort_order * 100 + TextRank(c.name)])

get_calendar(db, cal_id) == DbGet(db.calendars, cal_id)

\* get_calendar_events: ORDER BY start
get_calendar_events(db, cal_id) ==
    LET rows == {e \in RowsOf(db.events) : e.calendar_id = cal_id}
    IN  OrderBy(rows, [e \in rows |-> e.start])

get_event(db, event_id) == DbGet(db.events, event_id)

SeqRange(q) == {q[i] : i \in 1..Len(q)}

\* get_events_by_ids: WHERE id IN (ids), no ORDER BY
get_events_by_ids(db, ids) ==
    LET rows == {e \in RowsOf(db.events) : e.id \in SeqRange(ids)}
    IN  IF ids = <<>> THEN <<>> ELSE OrderBy(rows, [e \in rows |-> 0])

EVENT_KEYS == {"title", "description", "location", "start", "end", "all_day", "status"}

\* upsert_event that inserts when the id is new and otherwise returns the
\* row as it is
upsert_event_no_update(db, event_id, cal_id, data) ==
    IF event_id \in DOMAIN db.events THEN [db |-> db, row |-> db.events[event_id]]
    ELSE LET row == FlushInsert(
                    [id |-> event_id,
                     calendar_id |-> cal_id,
                     title |-> MapGet(data, "title", ""),
                     description |-> MapGet(data, "description", NoVal),
                     location |-> MapGet(data, "location", NoVal),
                     start |-> MapGet(data, "start", NoTime),
                     end |-> MapGet(data, "end", NoTime),
                     all_day |-> MapGet(data, "all_day", FALSE),
                     status |-> MapGet(data, "status", "confirmed"),
                     updated_at |-> NoTime], db.now + 1)
         IN  [db |-> [db EXCEPT !.events = DbPut(db.events, row), !.now = db.now + 1],
              row |-> row]

\* upsert_event: [db |-> the store after commit, row |-> the refreshed row]
upsert_event(db, event_id, cal_id, data) ==
    LET found == db.events
        t == db.now + 1
        row ==
            IF event_id \in DOMAIN found
            THEN LET ev == found[event_id]
                 IN  FlushUpdate(ev,
                        [k \in DOMAIN ev |->
                            IF k \in EVENT_KEYS /\ k \in DOMAIN data
                            THEN data[k] ELSE ev[k]], t)
            ELSE FlushInsert(
                    [id |-> event_id,
                     calendar_id |-> cal_id,
                     title |-> MapGet(data, "title", ""),
                     description |-> MapGet(data, "description", NoVal),
                     location |-> MapGet(data, "location", NoVal),
                     start |-> MapGet(data, "start", NoTime),
                     end |-> MapGet(data, "end", NoTime),
                     all_day |-> MapGet(data, "all_day", FALSE),
                     status |-> MapGet(data, "status", "confirmed"),
                     updated_at |-> NoTime], t)
        changed == DbGet(found, event_id) # {row}
    IN  [db |-> [db EXCEPT !.events = DbPut(found, row),
                           !.now = IF changed THEN t ELSE db.now],
         row |-> row]

\* delete_event that finds the row and returns without deleting it
delete_event_keeps_row(db, event_id) ==
    [db |-> db, ok |-> event_id \in DOMAIN db.events]

\* delete_event
delete_event(db, event_id) ==
    IF event_id \notin DOMAIN db.events THEN [db |-> db, ok |-> FALSE]
    ELSE [db |-> [db EXCEPT !.events = DbDelete(db.events, event_id)], ok |-> TRUE]

\* get_user_address_books: ORDER BY name
get_user_address_books(db, user_id) ==
    LET rows == {b \in RowsOf(db.books) : b.user_id = user_id}
    IN  OrderBy(rows, [b \in rows |-> TextRank(b.name)])

get_address_book(db, book_id) == DbGet(db.books, book_id)

\* get_book_contacts: ORDER BY full_name
get_book_contacts(db, book_id) ==
    LET rows == {c \in RowsOf(db.contacts) : c.address_book_id = book_id}
    IN  OrderBy(rows, [c \in rows |-> TextRank(c.full_name)])

get_contact(db, contact_id) == DbGet(db.contacts, contact_id)

\* get_contacts_by_ids: WHERE id IN (ids), no ORDER BY
get_contacts_by_ids(db, ids) ==
    LET rows == {c \in RowsOf(db.contacts) : c.id \in SeqRange(ids)}
    IN  IF ids = <<>> THEN <<>> ELSE OrderBy(rows, [c \in rows |-> 0])

\* json.dumps(data[k]) if data.get(k) else None
JsonColumn(data, k) ==
    IF k \in DOMAIN data /\ data[k] # <<>> THEN JsonDumps(data[k]) ELSE JsonNone

\* upsert_contact: [db |-> the store after commit, row |-> the refreshed row]
upsert_contact(db, contact_id, book_id, data) ==
    LET found == db.contacts
        t == db.now + 1
        has(k) == k \in DOMAIN data
        row ==
            IF contact_id \in DOMAIN found
            THEN LET c == found[contact_id]
                 IN  FlushUpdate(c,
                        [c EXCEPT
                           !.full_name = IF has("name") THEN data["name"] ELSE @,
                           !.given_name = IF has("first_name") THEN data["first_name"] ELSE @,
                           !.surname = IF has("last_name") THEN data["last_name"] ELSE @,
                           !.organization = IF has("organization") THEN data["organization"] ELSE @,
                           !.emails = IF has("emails") THEN JsonColumn(data, "emails") ELSE @,
                           !.phones = IF has("phones") THEN JsonColumn(data, "phones") ELSE @,
                           !.addresses = IF has("addresses") THEN JsonColumn(data, "addresses") ELSE @,
                           !.notes = IF has("notes") THEN data["notes"] ELSE @], t)
            ELSE FlushInsert(
                    [id |-> contact_id,
                     address_book_id |-> book_id,
                     full_name |-> MapGet(data, "name", ""),
                     given_name |-> MapGet(data, "first_name", NoVal),
                     surname |-> MapGet(data, "last_name", NoVal),
                     organization |-> MapGet(data, "organization", NoVal),
                     emails |-> JsonColumn(data, "emails"),
                     phones |-> JsonColumn(data, "phones"),
                     addresses |-> JsonColumn(data, "addresses"),
                     notes |-> MapGet(data, "notes", NoVal),
                     updated_at |-> NoTime], t)
        changed == DbGet(found, contact_id) # {row}
    IN  [db |-> [db EXCEPT !.contacts = DbPut(found, row),
                           !.now = IF changed THEN t ELSE db.now],
         row |-> row]

\* delete_contact
delete_contact(db, contact_id) ==
    IF contact_id \notin DOMAIN db.contacts THEN [db |-> db, ok |-> FALSE]
    ELSE [db |-> [db EXCEPT !.contacts = DbDelete(db.contacts, contact_id)], ok |-> TRUE]

-----------------------------------------------------------------------------
\* WebDAV XML (dav/xml_utils.py)

D(tag) == [ns |-> "DAV:", name |-> tag]
C(tag) == [ns |-> "urn:ietf:params:xml:ns:caldav", name |-> tag]
CR(tag) == [ns |-> "urn:ietf:params:xml:ns:carddav", name |-> tag]
CSt(tag) == [ns |-> "http://calendarserver.org/ns/", name |-> tag]

\* make_multistatus
make_multistatus == <<>>

\* add_propstat: one more response (href, propstat with status 200 OK)
add_propstat(ms, href, prop) ==
    Append(ms, [href |-> href, prop |-> prop, status |-> "HTTP/1.1 200 OK"])

\* serialize
serialize(ms) == [kind |-> "multistatus", responses |-> ms]

\* A request body as XML: not well-formed ("garbage", which includes the
\* empty body), or a root element with its tag, the children of its D:prop
\* and the texts of its D:href children.
XmlDoc(tag, props, hrefs) == [kind |-> "xml", tag |-> tag, props |-> props, hrefs |-> hrefs]
XmlGarbage == [kind |-> "garbage"]

\* parse_report that returns the local name of the root, namespace dropped
parse_report_local_name(body) ==
    IF body.kind # "xml" THEN {}
    ELSE {[report_tag |-> [ns |-> "", name |-> body.tag.name], props |-> body.props,
           hrefs |-> SelectSeq(body.hrefs, LAMBDA h : h # <<>>)]}

\* parse_report that raises on a body with a filter element
parse_report_rejects_filter(body) ==
    IF body.kind # "xml" \/ "filter" \in DOMAIN body THEN {}
    ELSE {[report_tag |-> body.tag, props |-> body.props,
           hrefs |-> SelectSeq(body.hrefs, LAMBDA h : h # <<>>)]}

\* parse_report: the set holding (report_tag, props, hrefs), empty when
\* ET.fromstring raises.
parse_report(body) ==
    IF body.kind # "xml" THEN {}
    ELSE {[report_tag |-> body.tag, props |-> body.props,
           hrefs |-> SelectSeq(body.hrefs, LAMBDA h : h # <<>>)]}

-----------------------------------------------------------------------------
\* Responses and property builders (dav/router.py)

\* the capability header alone
_DAV_HEADERS_without_allow == "DAV" :> "1, 3, calendar-access, addressbook"

_DAV_HEADERS ==
    ("DAV" :> "1, 3, calendar-access, addressbook")
 @@ ("Allow" :> "OPTIONS, PROPFIND, REPORT, GET, PUT, DELETE")

_XML_CT == "application/xml; charset=utf-8"

NoBody == [kind |-> "none"]

\* starlette Response(status_code, headers, content, media_type), together
\* with the store as the handler leaves it
Response(status, headers, body, db) ==
    [status |-> status, headers |-> headers, body |-> body, db |-> db]

\* the 207 that PROPFIND and REPORT end with
MultiStatus(ms, db) ==
    Response(207, _DAV_HEADERS @@ ("content-type" :> _XML_CT), serialize(ms), db)

_prop_root(root_path, username) ==
       ("resourcetype" :> <<D("collection")>>)
    @@ ("current-user-principal" :> _href(root_path, <<s_principals, username>>))
    @@ ("displayname" :> <<"WebDAV Root">>)

_prop_principal(root_path, username) ==
       ("resourcetype" :> <<D("collection"), D("principal")>>)
    @@ ("displayname" :> <<username>>)
    @@ ("calendar-home-set" :> _href(root_path, <<s_calendars, username>>))
    @@ ("addressbook-home-set" :> _href(root_path, <<s_addressbooks, username>>))

_prop_calendar_home(root_path, username) ==
       ("resourcetype" :> <<D("collection")>>)
    @@ ("displayname" :> <<username, " calendars">>)

_prop_calendar(db, root_path, cal) ==
       ("resourcetype" :> <<D("collection"), C("calendar")>>)
    @@ ("displayname" :> <<cal.name>>)
    @@ Opt(Truthy(cal.color), "calendar-color", cal.color)
    @@ ("getctag" :> calendar_ctag(db, cal.id))
    @@ ("supported-calendar-component-set" :> <<"VEVENT">>)
    @@ ("supported-report-set" :> <<C("calendar-multiget"), C("calendar-query")>>)

_prop_event(ev) ==
       ("getetag" :> Quoted(compute_etag(ev.id, ev.updated_at)))
    @@ ("getcontenttype" :> "text/calendar; charset=utf-8; component=VEVENT")

_prop_event_with_data(ev) ==
    _prop_event(ev) @@ ("calendar-data" :> event_to_ical(ev))

_prop_ab_home(root_path, username) ==
       ("resourcetype" :> <<D("collection")>>)
    @@ ("displayname" :> <<username, " address books">>)

_prop_addressbook(db, root_path, ab) ==
       ("resourcetype" :> <<D("collection"), CR("addressbook")>>)
    @@ ("displayname" :> <<ab.name>>)
    @@ ("getctag" :> addressbook_ctag(db, ab.id))
    @@ ("supported-report-set" :> <<CR("addressbook-multiget"), CR("addressbook-query")>>)

_prop_contact(c) ==
       ("getetag" :> Quoted(compute_etag(c.id, c.updated_at)))
    @@ ("getcontenttype" :> "text/vcard; charset=utf-8")

_prop_contact_with_data(c) ==
    _prop_contact(c) @@ ("address-data" :> contact_to_vcard(c))

\* f"{ev.id}.ics" and f"{c.id}.vcf"
IcsName(id) == id \o EXT_ICS
VcfName(id) == id \o EXT_VCF

RECURSIVE AddAll(_, _, _)
\* the for-loop "for row in rows: add_propstat(ms, entry(row))", where
\* entry maps each row to its (href, prop) pair
AddAll(ms, rows, entry) ==
    IF rows = <<>> THEN ms
    ELSE AddAll(add_propstat(ms, entry[rows[1]].href, entry[rows[1]].prop),
                Tail(rows), entry)

-----------------------------------------------------------------------------
\* Handlers (dav/router.py, class DavApp).  A request is
\* [method, authorization, path, depth, body]; depth is None when the header
\* is absent.  rp is the mount prefix (scope["root_path"]).

\* the ownership test that every user passes
Owns_anyone(user, rows) == TRUE

\* the ownership test reduced to "the collection exists"
Owns_if_exists(user, rows) == rows # {}

\* "cal.user_id == user.id" for the looked-up collection (rows is non-empty)
Owns(user, rows) == \E r \in rows : r.user_id = user.id

TheRow(rows) == CHOOSE r \in rows : TRUE

\* request.headers.get("depth", "1") with the default turned into "0"
DepthHeader_default_0(request) == IF request.depth = NoVal THEN "0" ELSE request.depth

\* request.headers.get("depth", "1")
DepthHeader(request) == IF request.depth = NoVal THEN "1" ELSE request.depth

\* DavApp._propfind
_propfind(request, route, user, db, rp) ==
    LET depth == DepthHeader(request)
        ms == make_multistatus
        rt == route.type
        un == user.username
        calEntry(cals) ==
            [c \in cals |-> [href |-> _href(rp, <<s_calendars, un, c.id>>),
                             prop |-> _prop_calendar(db, rp, c)]]
        abEntry(abs) ==
            [b \in abs |-> [href |-> _href(rp, <<s_addressbooks, un, b.id>>),
                            prop |-> _prop_addressbook(db, rp, b)]]
        evEntry(cal, evs) ==
            [e \in evs |-> [href |-> _href_res(rp, <<s_calendars, un, cal.id, IcsName(e.id)>>),
                            prop |-> _prop_event(e)]]
        ctEntry(ab, cts) ==
            [c \in cts |-> [href |-> _href_res(rp, <<s_addressbooks, un, ab.id, VcfName(c.id)>>),
                            prop |-> _prop_contact(c)]]
    IN  CASE rt = "root" ->
                LET ms1 == add_propstat(ms, rp \o <<SLASH>>, _prop_root(rp, un))
                IN  MultiStatus(
                        IF depth # "0"
                        THEN add_propstat(ms1, _href(rp, <<s_principals, un>>),
                                          _prop_principal(rp, un))
                        ELSE ms1, db)
          [] rt = "principal" ->
                MultiStatus(add_propstat(ms, _href(rp, <<s_principals, un>>),
                                         _prop_principal(rp, un)), db)
          [] rt = "cal-home" ->
                LET ms1 == add_propstat(ms, _href(rp, <<s_calendars, un>>),
                                        _prop_calendar_home(rp, un))
                    cals == get_user_calendars(db, user.id)
                IN  MultiStatus(
                        IF depth # "0"
                        THEN AddAll(ms1, cals, calEntry(SeqRange(cals)))
                        ELSE ms1, db)
          [] rt = "calendar" ->
                LET found == get_calendar(db, route.col)
                IN  IF found = {} \/ ~Owns(user, found)
                    THEN Response(404, EmptyMap, NoBody, db)
                    ELSE LET cal == TheRow(found)
                             ms1 == add_propstat(ms, _href(rp, <<s_calendars, un, cal.id>>),
                                                 _prop_calendar(db, rp, cal))
                             evs == get_calendar_events(db, cal.id)
                         IN  MultiStatus(
                                 IF depth # "0"
                                 THEN AddAll(ms1, evs, evEntry(cal, SeqRange(evs)))
                                 ELSE ms1, db)
          [] rt = "event" ->
                LET evs == get_event(db, route.rid)
                IN  IF evs = {} THEN Response(404, EmptyMap, NoBody, db)
                    ELSE LET ev == TheRow(evs)
                             found == get_calendar(db, ev.calendar_id)
                         IN  IF found = {} \/ ~Owns(user, found)
                             THEN Response(404, EmptyMap, NoBody, db)
                             ELSE MultiStatus(
                                     AddAll(ms, <<ev>>, evEntry(TheRow(found), {ev})), db)
          [] rt = "ab-home" ->
                LET ms1 == add_propstat(ms, _href(rp, <<s_addressbooks, un>>),
                                        _prop_ab_home(rp, un))
                    abs == get_user_address_books(db, user.id)
                IN  MultiStatus(
                        IF depth # "0"
                        THEN AddAll(ms1, abs, abEntry(SeqRange(abs)))
                        ELSE ms1, db)
          [] rt = "addressbook" ->
                LET found == get_address_book(db, route.col)
                IN  IF found = {} \/ ~Owns(user, found)
                    THEN Response(404, EmptyMap, NoBody, db)
                    ELSE LET ab == TheRow(found)
                             ms1 == add_propstat(ms, _href(rp, <<s_addressbooks, un, ab.id>>),
                                                 _prop_addressbook(db, rp, ab))
                             cts == get_book_contacts(db, ab.id)
                         IN  MultiStatus(
                                 IF depth # "0"
                                 THEN AddAll(ms1, cts, ctEntry(ab, SeqRange(cts)))
                                 ELSE ms1, db)
          [] rt = "contact" ->
                LET cts == get_contact(db, route.rid)
                IN  IF cts = {} THEN Response(404, EmptyMap, NoBody, db)
                    ELSE LET c == TheRow(cts)
                             found == get_address_book(db, c.address_book_id)
                         IN  IF found = {} \/ ~Owns(user, found)
                             THEN Response(404, EmptyMap, NoBody, db)
                             ELSE MultiStatus(
                                     AddAll(ms, <<c>>, ctEntry(TheRow(found), {c})), db)
          [] OTHER -> Response(404, EmptyMap, NoBody, db)

\* "/dav" in h
RECURSIVE Contains(_, _)
Contains(s, sub) ==
    IF Len(s) < Len(sub) THEN FALSE
    ELSE StartsWith(s, sub) \/ Contains(Tail(s), sub)

RECURSIVE AfterLast(_, _)
\* h.split(sep)[-1]: what follows the last occurrence of sep in h
AfterLast(s, sep) ==
    IF ~Contains(s, sep) THEN s
    ELSE IF StartsWith(s, sep) /\ ~Contains(SubSeq(s, Len(sep) + 1, Len(s)), sep)
        THEN SubSeq(s, Len(sep) + 1, Len(s))
    ELSE AfterLast(Tail(s), sep)

s_dav == <<"/", "dav">>

\* the ids collected from the hrefs as sent, mount prefix included
HrefIds_with_mount(hrefs) ==
    LET routes == [i \in 1..Len(hrefs) |-> _parse_path(hrefs[i])]
        keep == SelectSeq(routes, LAMBDA r : "rid" \in DOMAIN r /\ r.rid # <<>>)
    IN  [i \in 1..Len(keep) |-> keep[i].rid]

\* the ids that a multiget collects from its hrefs
HrefIds(hrefs) ==
    LET routes == [i \in 1..Len(hrefs) |->
                      _parse_path(IF Contains(hrefs[i], s_dav)
                                  THEN AfterLast(hrefs[i], s_dav) ELSE hrefs[i])]
        keep == SelectSeq(routes, LAMBDA r : "rid" \in DOMAIN r /\ r.rid # <<>>)
    IN  [i \in 1..Len(keep) |-> keep[i].rid]

\* DavApp._report
_report(request, route, user, db, rp) ==
    LET parsed == parse_report(request.body)
    IN  IF parsed = {} THEN Response(400, EmptyMap, NoBody, db)
        ELSE
        LET p == TheRow(parsed)
            report_tag == p.report_tag
            hrefs == p.hrefs
            ms == make_multistatus
            rt == route.type
            un == user.username
            evEntry(evs) ==
                [e \in evs |->
                    [href |-> _href_res(rp, <<s_calendars, un, e.calendar_id, IcsName(e.id)>>),
                     prop |-> _prop_event_with_data(e)]]
            ctEntry(cts) ==
                [c \in cts |->
                    [href |-> _href_res(rp, <<s_addressbooks, un, c.address_book_id, VcfName(c.id)>>),
                     prop |-> _prop_contact_with_data(c)]]
        IN  CASE rt = "calendar" /\ report_tag = C("calendar-multiget") ->
                    LET evs == get_events_by_ids(db, HrefIds(hrefs))
                        mine == SelectSeq(evs,
                                    LAMBDA e : Owns(user, get_calendar(db, e.calendar_id)))
                    IN  MultiStatus(AddAll(ms, mine, evEntry(SeqRange(mine))), db)
              [] rt = "calendar" /\ report_tag = C("calendar-query") ->
                    LET found == get_calendar(db, route.col)
                        evs == IF Owns(user, found)
                               THEN get_calendar_events(db, TheRow(found).id) ELSE <<>>
                    IN  MultiStatus(AddAll(ms, evs, evEntry(SeqRange(evs))), db)
              [] rt = "addressbook" /\ report_tag = CR("addressbook-multiget") ->
                    LET cts == get_contacts_by_ids(db, HrefIds(hrefs))
                        mine == SelectSeq(cts,
                                    LAMBDA c : Owns(user, get_address_book(db, c.address_book_id)))
                    IN  MultiStatus(AddAll(ms, mine, ctEntry(SeqRange(mine))), db)
              [] rt = "addressbook" /\ report_tag = CR("addressbook-query") ->
                    LET found == get_address_book(db, route.col)
                        cts == IF Owns(user, found)
                               THEN get_book_contacts(db, TheRow(found).id) ELSE <<>>
                    IN  MultiStatus(AddAll(ms, cts, ctEntry(SeqRange(cts))), db)
              [] OTHER -> Response(403, EmptyMap, NoBody, db)

\* _get that serves events and has no branch for contacts
_get_events_only(route, user, db) ==
    IF route.type # "event" THEN Response(404, EmptyMap, NoBody, db)
    ELSE LET evs == get_event(db, route.rid)
         IN  IF evs = {} THEN Response(404, EmptyMap, NoBody, db)
             ELSE LET ev == TheRow(evs)
                      found == get_calendar(db, ev.calendar_id)
                  IN  IF found = {} \/ ~Owns(user, found)
                      THEN Response(404, EmptyMap, NoBody, db)
                      ELSE Response(200,
                              ("ETag" :> Quoted(compute_etag(ev.id, ev.updated_at)))
                              @@ ("content-type" :> "text/calendar; charset=utf-8"),
                              event_to_ical(ev), db)

\* DavApp._get
_get(route, user, db) ==
    LET rt == route.type
    IN  CASE rt = "event" ->
                LET evs == get_event(db, route.rid)
                IN  IF evs = {} THEN Response(404, EmptyMap, NoBody, db)
                    ELSE LET ev == TheRow(evs)
                             found == get_calendar(db, ev.calendar_id)
                         IN  IF found = {} \/ ~Owns(user, found)
                             THEN Response(404, EmptyMap, NoBody, db)
                             ELSE Response(200,
                                     ("ETag" :> Quoted(compute_etag(ev.id, ev.updated_at)))
                                     @@ ("content-type" :> "text/calendar; charset=utf-8"),
                                     event_to_ical(ev), db)
          [] rt = "contact" ->
                LET cts == get_contact(db, route.rid)
                IN  IF cts = {} THEN Response(404, EmptyMap, NoBody, db)
                    ELSE LET c == TheRow(cts)
                             found == get_address_book(db, c.address_book_id)
                         IN  IF found = {} \/ ~Owns(user, found)
                             THEN Response(404, EmptyMap, NoBody, db)
                             ELSE Response(200,
                                     ("ETag" :> Quoted(compute_etag(c.id, c.updated_at)))
                                     @@ ("content-type" :> "text/vcard; charset=utf-8"),
                                     contact_to_vcard(c), db)
          [] OTHER -> Response(404, EmptyMap, NoBody, db)

\* DavApp._put
_put(request, route, user, db, rp) ==
    LET body == request.body
        rt == route.type
    IN  CASE rt = "event" ->
                LET found == get_calendar(db, route.col)
                IN  IF found = {} \/ ~Owns(user, found)
                    THEN Response(403, EmptyMap, NoBody, db)
                    ELSE LET cal == TheRow(found)
                             data == ical_to_event_data(body)
                         IN  IF data = {} \/ data = {EmptyMap}
                             THEN Response(400, EmptyMap, NoBody, db)
                             ELSE LET up == upsert_event(db, route.rid, cal.id, TheRow(data))
                                      ev == up.row
                                  IN  Response(201,
                                         ("ETag" :> Quoted(compute_etag(ev.id, ev.updated_at)))
                                         @@ ("Location" :> _href_res(rp,
                                               <<s_calendars, user.username, cal.id, IcsName(ev.id)>>)),
                                         NoBody, up.db)
          [] rt = "contact" ->
                LET found == get_address_book(db, route.col)
                IN  IF found = {} \/ ~Owns(user, found)
                    THEN Response(403, EmptyMap, NoBody, db)
                    ELSE LET ab == TheRow(found)
                             data == vcard_to_contact_data(body)
                         IN  IF data = {} \/ data = {EmptyMap}
                             THEN Response(400, EmptyMap, NoBody, db)
                             ELSE LET up == upsert_contact(db, route.rid, ab.id, TheRow(data))
                                      c == up.row
                                  IN  Response(201,
                                         ("ETag" :> Quoted(compute_etag(c.id, c.updated_at)))
                                         @@ ("Location" :> _href_res(rp,
                                               <<s_addressbooks, user.username, ab.id, VcfName(c.id)>>)),
                                         NoBody, up.db)
          [] OTHER -> Response(403, EmptyMap, NoBody, db)

\* DavApp._delete
_delete(route, user, db) ==
    LET rt == route.type
    IN  CASE rt = "event" ->
                LET evs == get_event(db, route.rid)
                IN  IF evs = {} THEN Response(404, EmptyMap, NoBody, db)
                    ELSE LET found == get_calendar(db, TheRow(evs).calendar_id)
                         IN  IF found = {} \/ ~Owns(user, found)
                             THEN Response(403, EmptyMap, NoBody, db)
                             ELSE Response(204, EmptyMap, NoBody,
                                           delete_event(db, route.rid).db)
          [] rt = "contact" ->
                LET cts == get_contact(db, route.rid)
                IN  IF cts = {} THEN Response(404, EmptyMap, NoBody, db)
                    ELSE LET found == get_address_book(db, TheRow(cts).address_book_id)
                         IN  IF found = {} \/ ~Owns(user, found)
                             THEN Response(403, EmptyMap, NoBody, db)
                             ELSE Response(204, EmptyMap, NoBody,
                                           delete_contact(db, route.rid).db)
          [] OTHER -> Response(403, EmptyMap, NoBody, db)

\* scope["root_path"] of the mount (main.py: app.mount("/dav", dav_app))
ROOT_PATH == s_dav

\* the dispatch without the comparison of the path's username
Routed_any_username(request, route, user, db) ==
    LET method == request.method
        rp == ROOT_PATH
    IN  CASE method = "OPTIONS" -> Response(200, _DAV_HEADERS, NoBody, db)
          [] method = "PROPFIND" -> _propfind(request, route, user, db, rp)
          [] method = "REPORT" -> _report(request, route, user, db, rp)
          [] method = "GET" -> _get(route, user, db)
          [] method = "PUT" -> _put(request, route, user, db, rp)
          [] method = "DELETE" -> _delete(route, user, db)
          [] OTHER -> Response(405, EmptyMap, NoBody, db)

\* What _dispatch does once the user is authenticated and the path parsed.
Routed(request, route, user, db) ==
    LET method == request.method
        rp == ROOT_PATH
    IN  IF "username" \in DOMAIN route /\ route.username # <<>>
           /\ route.username # user.username
        THEN Response(403, EmptyMap, NoBody, db)
        ELSE CASE method = "OPTIONS" -> Response(200, _DAV_HEADERS, NoBody, db)
               [] method = "PROPFIND" -> _propfind(request, route, user, db, rp)
               [] method = "REPORT" -> _report(request, route, user, db, rp)
               [] method = "GET" -> _get(route, user, db)
               [] method = "PUT" -> _put(request, route, user, db, rp)
               [] method = "DELETE" -> _delete(route, user, db)
               [] OTHER -> Response(405, EmptyMap, NoBody, db)

\* DavApp._dispatch
_dispatch(request, db) ==
    LET users == authenticate_dav(request.authorization, db)
    IN  IF users = {}
        THEN Response(401, "WWW-Authenticate" :> "Basic realm=\"WebDAV\"", NoBody, db)
        ELSE LET path == IF request.path = <<>> THEN <<SLASH>> ELSE request.path
             IN  Routed(request, _parse_path(path), TheRow(users), db)

\* Requests that clients send

PathOf(segs) == <<SLASH>> \o JoinWith(<<SLASH>>, segs)

Request(method, authorization, path, depth, body) ==
    [method |-> method, authorization |-> authorization, path |-> path,
     depth |-> depth, body |-> body]

Methods == {"OPTIONS", "PROPFIND", "REPORT", "GET", "PUT", "DELETE", "MKCOL"}

AliceAuth == Credentials(s_alice, pw_alice)
BobAuth == Credentials(s_bob, pw_bob)

\* Authorization headers that do not authenticate anybody.
BadAuths == {
    NoHeader,
    [present |-> TRUE, prefix |-> "Bearer ", b64ok |-> TRUE, decoded |-> s_alice \o <<":">> \o pw_alice],
    [present |-> TRUE, prefix |-> "basic ", b64ok |-> TRUE, decoded |-> s_alice \o <<":">> \o pw_alice],
    [present |-> TRUE, prefix |-> "Basic ", b64ok |-> FALSE, decoded |-> <<>>],
    BasicHeader(s_alice),
    Credentials(s_eve, pw_alice),
    Credentials(s_carol, pw_carol),
    Credentials(s_dave, pw_dave),
    Credentials(s_alice, pw_bob),
    Credentials(s_bob, <<"p">>) }

s_txt == <<"e1", ".txt">>
s_x == <<"x">>

RootPath == <<SLASH>>
PrincipalPath(un) == PathOf(<<s_principals, un>>)
CalHomePath(un) == PathOf(<<s_calendars, un>>)
AbHomePath(un) == PathOf(<<s_addressbooks, un>>) \o <<SLASH>>
CalendarPath(un, col) == PathOf(<<s_calendars, un, col>>)
BookPath(un, col) == PathOf(<<s_addressbooks, un, col>>)
EventPath(un, col, rid) == PathOf(<<s_calendars, un, col, IcsName(rid)>>)
ContactPath(un, col, rid) == PathOf(<<s_addressbooks, un, col, VcfName(rid)>>)

EventIds == {id_e1, id_e2}
ContactIds == {id_c1, id_c2}

\* Paths that are no resource of any user.
CommonPaths == {
    RootPath,
    <<>>,
    PathOf(<<s_x>>),
    PathOf(<<s_calendars>>),
    PathOf(<<s_calendars, s_alice, id_ka, s_txt>>),
    PathOf(<<s_addressbooks, s_alice, id_ba, IcsName(id_c1)>>),
    PathOf(<<s_calendars, s_alice, id_ka, IcsName(id_e1), s_x>>),
    PathOf(<<s_principals, s_alice, s_x>>) }

\* Paths under one username: principal, homes, collections (the user's own,
\* somebody else's, a missing one) and resources in them.
UserPaths(un) ==
    {PrincipalPath(un), CalHomePath(un), AbHomePath(un)}
    \cup {CalendarPath(un, col) : col \in {id_ka, id_kw, id_kb, id_zz}}
    \cup {BookPath(un, col) : col \in {id_ba, id_bb, id_zz}}
    \cup {EventPath(un, col, rid) : col \in {id_ka, id_kw, id_kb, id_zz}, rid \in EventIds}
    \cup {ContactPath(un, col, rid) : col \in {id_ba, id_bb, id_zz}, rid \in ContactIds}

\* Resource names that begin with the letters of the mount point, and the
\* extension alone as a resource name.
id_d1 == <<"dav", "1">>
id_none == <<>>
OddPaths ==
    {EventPath(s_alice, id_ka, id_d1), ContactPath(s_alice, id_ba, id_d1),
     EventPath(s_alice, id_ka, id_none), ContactPath(s_alice, id_ba, id_none)}

AllPaths ==
    CommonPaths \cup UserPaths(s_alice) \cup UserPaths(s_bob) \cup UserPaths(s_eve)
    \cup OddPaths

\* The route of every path in use, computed once.
RouteOf == [p \in AllPaths |-> _parse_path(p)]

\* Request bodies

EvFull ==
    ICalText(<< ("uid" :> id_e1) @@ ("summary" :> "Standup")
             @@ ("description" :> "agenda") @@ ("location" :> "Room 1")
             @@ ("dtstart" :> DateTimeValue(129, "UTC"))
             @@ ("dtend" :> DateTimeValue(130, "UTC"))
             @@ ("status" :> "TENTATIVE") >>)

EvMin ==
    ICalText(<< ("summary" :> "Standup")
             @@ ("dtstart" :> DateValue(5)) @@ ("dtend" :> DateValue(6)) >>)

CtFull ==
    VCardText(("uid" :> id_c1) @@ ("fn" :> "Jane Doe")
           @@ ("n" :> [given |-> "Jane", family |-> "Doe"])
           @@ ("org" :> <<"ACME">>)
           @@ ("email" :> <<[type |-> "WORK", value |-> "jane@acme.test"],
                            [type |-> NoVal, value |-> "jane@home.test"]>>)
           @@ ("tel" :> <<[type |-> "Cell", value |-> "555-0100"]>>)
           @@ ("adr" :> <<[type |-> "home", value |-> "1 Main St"]>>)
           @@ ("note" :> "met at conference"))

CtMin ==
    VCardText(("fn" :> "Jane Doe") @@ ("n" :> [given |-> "Jane", family |-> "Doe"])
           @@ ("email" :> <<[type |-> NoVal, value |-> "jane@home.test"]>>))

EventHref(un, col, rid) == _href_res(ROOT_PATH, <<s_calendars, un, col, IcsName(rid)>>)
ContactHref(un, col, rid) == _href_res(ROOT_PATH, <<s_addressbooks, un, col, VcfName(rid)>>)

\* REPORT bodies: a multiget over hrefs, a query, an unsupported report
CalMultiget ==
    XmlDoc(C("calendar-multiget"), {"getetag", "calendar-data"},
           <<EventHref(s_alice, id_ka, id_e1), EventHref(s_bob, id_kb, id_e2), <<>> >>)
CalQuery == XmlDoc(C("calendar-query"), {"getetag", "calendar-data"}, <<>>)
CardMultiget ==
    XmlDoc(CR("addressbook-multiget"), {"getetag", "address-data"},
           <<ContactHref(s_alice, id_ba, id_c1)>>)
CardQuery == XmlDoc(CR("addressbook-query"), {"getetag"}, <<>>)
SyncCollection == XmlDoc(D("sync-collection"), {}, <<>>)

\* a report body with a filter element (time-range, prop-filter) next to
\* its D:prop
WithFilter(doc, filter) == doc @@ ("filter" :> filter)
TimeRange == [name |-> "time-range", start |-> 0, end |-> 1]
PropFilter == [name |-> "prop-filter", prop |-> "EMAIL", text |-> "nobody"]

\* multigets over an href of alice and an href of bob
CalMultigetBoth ==
    XmlDoc(C("calendar-multiget"), {"getetag", "calendar-data"},
           <<EventHref(s_alice, id_ka, id_e1), EventHref(s_bob, id_kb, id_e2)>>)
CardMultigetBoth ==
    XmlDoc(CR("addressbook-multiget"), {"getetag", "address-data"},
           <<ContactHref(s_alice, id_ba, id_c1), ContactHref(s_bob, id_bb, id_c2)>>)

NoDoc == [kind |-> "none"]

Propfind_(auth, path, depth) == Request("PROPFIND", auth, path, depth, NoDoc)
Report_(auth, path, body) == Request("REPORT", auth, path, NoVal, body)
Get_(auth, path) == Request("GET", auth, path, NoVal, NoDoc)
Put_(auth, path, body) == Request("PUT", auth, path, NoVal, body)
Delete_(auth, path) == Request("DELETE", auth, path, NoVal, NoDoc)

-----------------------------------------------------------------------------
\* The state machine: one step serves one request to completion.
\*   events, contacts  the two tables the handlers write
\*   now               the latest time the clock has shown
\*   last              the request served last and its response; the path
\*                     and body are kept for a request that committed
\*                     (201, 204), of a REPORT body the report name
\*   putEtag           per path, the ETag header of the last successful PUT
\*                     to it since the last successful DELETE of it
\*   resolved          the path resolver on its own: the segments and the
\*                     slashes a path was written with, the path, and the
\*                     route returned for it once the resolver has run
\*   tasks             the requests in flight when requests are served
\*                     concurrently: per task its request, the await it has
\*                     reached, the row its session has loaded, the status
\*                     it was answered with, and how often it has committed

ResponseCount(resp) ==
    IF resp.body.kind = "multistatus" THEN Len(resp.body.responses) ELSE 0

\* the tasks that serve requests concurrently
TaskIds == {1, 2}

\* a task that has not received its request
IdleTask ==
    [pc |-> "idle", request |-> Request("NONE", NoHeader, <<>>, NoVal, NoDoc),
     seen |-> {}, status |-> 0, commits |-> 0]

\* the entry of last for a request and its response
LastOf(request, resp, users, route) ==
    LET committed == resp.status \in {201, 204}
    IN  [method |-> request.method,
         rtype |-> route.type,
         rid |-> IF "rid" \in DOMAIN route THEN route.rid ELSE <<>>,
         depth |-> IF request.method = "PROPFIND" THEN request.depth ELSE NoVal,
         report |-> IF request.method = "REPORT" /\ request.body.kind = "xml"
                    THEN request.body.tag.name ELSE "none",
         authed |-> users # {},
         foreign |-> /\ users # {}
                     /\ "username" \in DOMAIN route
                     /\ route.username # TheRow(users).username,
         user |-> IF users # {} THEN TheRow(users).username ELSE <<>>,
         status |-> resp.status,
         count |-> ResponseCount(resp),
         path |-> IF committed THEN request.path ELSE <<>>,
         body |-> IF committed THEN request.body ELSE NoDoc,
         etag |-> IF "ETag" \in DOMAIN resp.headers THEN resp.headers["ETag"] ELSE <<>>]

Serve(request) ==
    \E resp \in {_dispatch(request, DB(events, contacts, now))} :
        /\ events' = resp.db.events
        /\ contacts' = resp.db.contacts
        /\ now' = resp.db.now
        /\ last' = LastOf(request, resp,
                          authenticate_dav(request.authorization, resp.db),
                          RouteOf[request.path])
        /\ putEtag' =
              IF request.method = "PUT" /\ resp.status = 201
              THEN (request.path :> resp.headers["ETag"]) @@ putEtag
              ELSE IF request.method = "DELETE" /\ resp.status = 204
              THEN [k \in DOMAIN putEtag \ {request.path} |-> putEtag[k]]
              ELSE putEtag
        /\ UNCHANGED <<resolved, tasks>>

Options(R) == \E request \in R : request.method = "OPTIONS" /\ Serve(request)

Propfind(R) == \E request \in R : request.method = "PROPFIND" /\ Serve(request)

Report(R) == \E request \in R : request.method = "REPORT" /\ Serve(request)

Get(R) == \E request \in R : request.method = "GET" /\ Serve(request)

\* a write reads a later time, so the clock must have room for it
Put(R) == \E request \in R : request.method = "PUT" /\ now < MaxClock /\ Serve(request)

Delete(R) == \E request \in R : request.method = "DELETE" /\ Serve(request)

\* a method the dispatcher has no handler for
Other(R) ==
    \E request \in R :
        /\ request.method \notin {"OPTIONS", "PROPFIND", "REPORT", "GET", "PUT", "DELETE"}
        /\ Serve(request)

\* time passes between two requests
Tick ==
    /\ now < MaxClock /\ now' = now + 1
    /\ UNCHANGED <<events, contacts, last, putEtag, resolved, tasks>>

Init ==
    /\ events = EmptyMap
    /\ contacts = EmptyMap
    /\ now = 0
    /\ last = [method |-> "NONE", rtype |-> "none", rid |-> <<>>, depth |-> NoVal,
               report |-> "none",
               authed |-> FALSE, foreign |-> FALSE, user |-> <<>>, status |-> 0,
               count |-> 0, path |-> <<>>, body |-> NoDoc, etag |-> <<>>]
    /\ putEtag = EmptyMap
    /\ resolved = [segs |-> <<>>, slashes |-> "plain", path |-> <<SLASH>>,
                   done |-> FALSE, route |-> [type |-> "none"]]
    /\ tasks = [t \in TaskIds |-> IdleTask]

\* Requests that are refused before a handler runs, or that no handler serves.
RefusedRequests ==
    {Request(m, NoHeader, RootPath, NoVal, NoDoc) : m \in Methods}
    \cup {Get_(a, EventPath(s_alice, id_ka, id_e1)) :
            a \in {Credentials(s_carol, pw_carol), Credentials(s_alice, pw_bob),
                   Credentials(s_dave, pw_dave)}}
    \cup {Request(m, AliceAuth, EventPath(s_bob, id_kb, id_e1), NoVal,
                  IF m = "PUT" THEN EvFull ELSE NoDoc) : m \in Methods}
    \cup {Request(m, AliceAuth, CalendarPath(s_eve, id_ka), NoVal, NoDoc) :
            m \in {"PROPFIND", "OPTIONS"}}
    \cup {Request(m, AliceAuth, PathOf(<<s_x>>), NoVal, NoDoc) :
            m \in {"OPTIONS", "PROPFIND", "GET", "MKCOL"}}

\* What alice reads: her own collections and resources, and paths under her
\* name that lead to a calendar or resource of bob, or to nothing.
AliceReads ==
    {Propfind_(AliceAuth, p, NoVal) :
        p \in {RootPath, PrincipalPath(s_alice), CalHomePath(s_alice), AbHomePath(s_alice),
               CalendarPath(s_alice, id_ka), CalendarPath(s_alice, id_kw),
               CalendarPath(s_alice, id_kb), CalendarPath(s_alice, id_zz),
               BookPath(s_alice, id_ba), BookPath(s_alice, id_bb),
               EventPath(s_alice, id_ka, id_e1), EventPath(s_alice, id_ka, id_e2),
               EventPath(s_alice, id_kw, id_e1), ContactPath(s_alice, id_ba, id_c1)}}
    \cup {Propfind_(AliceAuth, p, d) :
            p \in {CalHomePath(s_alice), AbHomePath(s_alice), CalendarPath(s_alice, id_ka),
                   BookPath(s_alice, id_ba), EventPath(s_alice, id_ka, id_e1)},
            d \in {"0", "1"}}
    \cup {Report_(AliceAuth, CalendarPath(s_alice, col), b) :
            col \in {id_ka, id_kb}, b \in {CalMultiget, CalQuery}}
    \cup {Report_(AliceAuth, BookPath(s_alice, col), b) :
            col \in {id_ba, id_bb}, b \in {CardMultiget, CardQuery}}
    \cup {Report_(AliceAuth, CalendarPath(s_alice, id_ka), b) : b \in {SyncCollection, XmlGarbage}}
    \cup {Get_(AliceAuth, p) :
            p \in {EventPath(s_alice, id_ka, id_e1), EventPath(s_alice, id_ka, id_e2),
                   EventPath(s_alice, id_kb, id_e1), ContactPath(s_alice, id_ba, id_c1),
                   CalendarPath(s_alice, id_ka)}}

BobReads ==
    {Propfind_(BobAuth, p, NoVal) :
        p \in {CalHomePath(s_bob), CalendarPath(s_bob, id_kb), CalendarPath(s_bob, id_ka),
               EventPath(s_bob, id_kb, id_e1)}}
    \cup {Report_(BobAuth, CalendarPath(s_bob, id_kb), b) : b \in {CalMultiget, CalQuery}}
    \cup {Get_(BobAuth, p) :
            p \in {EventPath(s_bob, id_kb, id_e1), ContactPath(s_bob, id_bb, id_c1)}}

\* The whole application, one body per kind of resource: two users create
\* and delete events and contacts, read, and are refused.
Requests ==
    {Put_(AliceAuth, EventPath(s_alice, id_ka, rid), EvFull) : rid \in EventIds}
    \cup {Put_(AliceAuth, ContactPath(s_alice, id_ba, id_c1), CtFull),
          Put_(AliceAuth, EventPath(s_alice, id_kb, id_e1), EvFull),
          Put_(AliceAuth, EventPath(s_alice, id_ka, id_e1), GarbageText),
          Put_(BobAuth, EventPath(s_bob, id_kb, id_e1), EvFull),
          Delete_(AliceAuth, EventPath(s_alice, id_ka, id_e1)),
          Delete_(BobAuth, EventPath(s_bob, id_kb, id_e1)),
          Propfind_(AliceAuth, CalHomePath(s_alice), "0"),
          Propfind_(AliceAuth, CalendarPath(s_alice, id_ka), "0"),
          Propfind_(AliceAuth, CalendarPath(s_alice, id_ka), "1"),
          Propfind_(AliceAuth, CalendarPath(s_alice, id_kb), NoVal),
          Propfind_(AliceAuth, BookPath(s_alice, id_ba), NoVal),
          Propfind_(AliceAuth, EventPath(s_alice, id_ka, id_e1), NoVal),
          Report_(AliceAuth, CalendarPath(s_alice, id_ka), CalMultiget),
          Report_(AliceAuth, CalendarPath(s_alice, id_ka), CalQuery),
          Get_(AliceAuth, EventPath(s_alice, id_ka, id_e1)),
          Get_(AliceAuth, ContactPath(s_alice, id_ba, id_c1)),
          Get_(BobAuth, EventPath(s_bob, id_kb, id_e1))}
    \cup RefusedRequests

Next ==
    \/ Options(Requests)
    \/ Propfind(Requests)
    \/ Report(Requests)
    \/ Get(Requests)
    \/ Put(Requests)
    \/ Delete(Requests)
    \/ Other(Requests)

Spec == Init /\ [][Next]_vars

\* Writers: resources are created, replaced by a different body and deleted
\* while time passes; a few reads in between.
WriteRequests ==
    {Put_(AliceAuth, EventPath(s_alice, id_ka, id_e1), b) : b \in {EvFull, EvMin, GarbageText}}
    \cup {Put_(AliceAuth, ContactPath(s_alice, id_ba, id_c1), b) : b \in {CtFull, CtMin}}
    \cup {Put_(AliceAuth, EventPath(s_alice, id_ka, id_e2), EvFull),
          Put_(BobAuth, EventPath(s_bob, id_kb, id_e1), EvMin),
          Delete_(AliceAuth, EventPath(s_alice, id_ka, id_e1)),
          Delete_(AliceAuth, EventPath(s_alice, id_ka, id_e2)),
          Delete_(AliceAuth, ContactPath(s_alice, id_ba, id_c1)),
          Get_(AliceAuth, EventPath(s_alice, id_ka, id_e1)),
          Get_(AliceAuth, ContactPath(s_alice, id_ba, id_c1)),
          Propfind_(AliceAuth, CalendarPath(s_alice, id_ka), NoVal),
          Propfind_(AliceAuth, BookPath(s_alice, id_ba), "0"),
          Report_(AliceAuth, CalendarPath(s_alice, id_ka), CalQuery),
          Request("OPTIONS", AliceAuth, RootPath, NoVal, NoDoc),
          Request("MKCOL", AliceAuth, CalendarPath(s_alice, id_zz), NoVal, NoDoc)}

NextWrite ==
    \/ Options(WriteRequests)
    \/ Propfind(WriteRequests)
    \/ Report(WriteRequests)
    \/ Get(WriteRequests)
    \/ Put(WriteRequests)
    \/ Delete(WriteRequests)
    \/ Other(WriteRequests)
    \/ Tick

SpecWrite == Init /\ [][NextWrite]_vars

\* Two users side by side: each has events and contacts of their own, and
\* alice addresses, under her own name, collections and resources that are
\* bob's, missing, or no resource at all.
MixedRequests ==
    {Put_(AliceAuth, EventPath(s_alice, id_ka, id_e1), EvFull),
     Put_(AliceAuth, EventPath(s_alice, id_kw, id_e2), EvMin),
     Put_(BobAuth, EventPath(s_bob, id_kb, id_e2), EvFull),
     Put_(AliceAuth, ContactPath(s_alice, id_ba, id_c1), CtFull),
     Put_(BobAuth, ContactPath(s_bob, id_bb, id_c2), CtMin),
     Put_(AliceAuth, EventPath(s_alice, id_kb, id_e1), EvFull),
     Put_(AliceAuth, EventPath(s_alice, id_ka, id_e1), GarbageText),
     Put_(AliceAuth, PathOf(<<s_x>>), EvFull),
     Delete_(AliceAuth, EventPath(s_alice, id_ka, id_e1)),
     Delete_(AliceAuth, EventPath(s_alice, id_ka, id_e2)),
     Delete_(BobAuth, ContactPath(s_bob, id_bb, id_c2)),
     Report_(AliceAuth, CalendarPath(s_alice, id_ka), CalMultigetBoth),
     Report_(AliceAuth, CalendarPath(s_alice, id_kw), WithFilter(CalQuery, TimeRange)),
     Report_(AliceAuth, BookPath(s_alice, id_ba), CardMultigetBoth),
     Report_(AliceAuth, BookPath(s_alice, id_ba), CalQuery),
     Get_(AliceAuth, EventPath(s_alice, id_ka, id_e2)),
     Get_(AliceAuth, ContactPath(s_alice, id_ba, id_c2)),
     Get_(AliceAuth, CalendarPath(s_alice, id_ka)),
     Request("OPTIONS", AliceAuth, PathOf(<<s_x>>), NoVal, NoDoc),
     Request("OPTIONS", NoHeader, RootPath, NoVal, NoDoc),
     Request("OPTIONS", BobAuth, CalendarPath(s_alice, id_ka), NoVal, NoDoc)}

NextMixed ==
    \/ Options(MixedRequests)
    \/ Report(MixedRequests)
    \/ Get(MixedRequests)
    \/ Put(MixedRequests)
    \/ Delete(MixedRequests)

SpecMixed == Init /\ [][NextMixed]_vars

\* The path resolver on paths of every shape: up to five segments, written
\* with a leading slash, with a trailing slash too, with every slash
\* doubled, or with no leading slash.
s_ics == <<"ics">>
FirstSegments == {s_principals, s_calendars, s_addressbooks, s_x, s_alice, IcsName(id_e1)}
MiddleSegments == {s_alice, id_ka, s_calendars, IcsName(id_e1)}
FourthSegments ==
    {IcsName(id_e1), VcfName(id_c1), EXT_ICS, EXT_VCF, s_txt, id_e1, s_ics, id_ka,
     IcsName(id_e1) \o EXT_VCF, VcfName(id_c1) \o EXT_ICS}
FifthSegments == {s_x, IcsName(id_e1)}

SegmentLists ==
    {<<>>}
    \cup {<<a>> : a \in FirstSegments}
    \cup {<<a, b>> : a \in FirstSegments, b \in MiddleSegments}
    \cup {<<a, b, c>> : a \in FirstSegments, b \in MiddleSegments, c \in MiddleSegments}
    \cup {<<a, b, c, d>> : a \in FirstSegments \ {IcsName(id_e1)},
                           b \in {s_alice, s_calendars}, c \in MiddleSegments,
                           d \in FourthSegments}
    \cup {<<a, b, c, d, e>> : a \in {s_calendars, s_addressbooks}, b \in {s_alice},
                              c \in {id_ka}, d \in FourthSegments, e \in FifthSegments}

SlashStyles == {"plain", "trailing", "doubled", "bare"}

\* the text of a path with the given segments
PathText(segs, slashes) ==
    CASE slashes = "plain" -> <<SLASH>> \o JoinWith(<<SLASH>>, segs)
      [] slashes = "trailing" -> <<SLASH>> \o JoinWith(<<SLASH>>, segs) \o <<SLASH>>
      [] slashes = "doubled" ->
            <<SLASH, SLASH>> \o JoinWith(<<SLASH, SLASH>>, segs) \o <<SLASH, SLASH>>
      [] OTHER -> JoinWith(<<SLASH>>, segs)

InitPath ==
    /\ events = EmptyMap
    /\ contacts = EmptyMap
    /\ now = 0
    /\ last = [method |-> "NONE", rtype |-> "none", rid |-> <<>>, depth |-> NoVal,
               report |-> "none",
               authed |-> FALSE, foreign |-> FALSE, user |-> <<>>, status |-> 0,
               count |-> 0, path |-> <<>>, body |-> NoDoc, etag |-> <<>>]
    /\ putEtag = EmptyMap
    /\ \E segs \in SegmentLists, slashes \in SlashStyles :
          resolved = [segs |-> segs, slashes |-> slashes, path |-> PathText(segs, slashes),
                      done |-> FALSE, route |-> [type |-> "none"]]
    /\ tasks = [t \in TaskIds |-> IdleTask]

\* route = _parse_path(path)
Resolve ==
    /\ ~resolved.done
    /\ resolved' = [resolved EXCEPT !.done = TRUE, !.route = _parse_path(resolved.path)]
    /\ UNCHANGED <<events, contacts, now, last, putEtag, tasks>>

NextPath == Resolve

SpecPath == InitPath /\ [][NextPath]_vars

\* Resource ids that meet: one id put into two collections of alice and
\* into a collection of bob, an id that begins with "dav", and the
\* extension alone as the last segment.
EdgeRequests ==
    {Put_(AliceAuth, EventPath(s_alice, id_ka, id_e1), EvFull),
     Put_(AliceAuth, EventPath(s_alice, id_kw, id_e1), EvMin),
     Put_(BobAuth, EventPath(s_bob, id_kb, id_e1), EvMin),
     Put_(AliceAuth, ContactPath(s_alice, id_ba, id_c1), CtFull),
     Put_(BobAuth, ContactPath(s_bob, id_bb, id_c1), CtMin),
     Put_(AliceAuth, EventPath(s_alice, id_ka, id_d1), EvFull),
     Put_(AliceAuth, EventPath(s_alice, id_ka, id_none), EvMin),
     Put_(AliceAuth, ContactPath(s_alice, id_ba, id_none), CtMin),
     Delete_(AliceAuth, EventPath(s_alice, id_ka, id_e1)),
     Delete_(BobAuth, EventPath(s_bob, id_kb, id_e1)),
     Delete_(AliceAuth, EventPath(s_alice, id_ka, id_none)),
     Propfind_(AliceAuth, CalendarPath(s_alice, id_ka), "1"),
     Propfind_(AliceAuth, CalendarPath(s_alice, id_kw), "1"),
     Propfind_(BobAuth, CalendarPath(s_bob, id_kb), "1"),
     Report_(AliceAuth, CalendarPath(s_alice, id_ka),
             XmlDoc(C("calendar-multiget"), {"getetag", "calendar-data"},
                    <<EventHref(s_alice, id_ka, id_e1), EventHref(s_alice, id_ka, id_d1)>>)),
     Get_(AliceAuth, EventPath(s_alice, id_ka, id_d1)),
     Get_(AliceAuth, EventPath(s_alice, id_kw, id_e1)),
     Get_(BobAuth, EventPath(s_bob, id_kb, id_e1)),
     Get_(AliceAuth, EventPath(s_alice, id_ka, id_none))}

NextEdge ==
    \/ Propfind(EdgeRequests)
    \/ Report(EdgeRequests)
    \/ Get(EdgeRequests)
    \/ Put(EdgeRequests)
    \/ Delete(EdgeRequests)

SpecEdge == Init /\ [][NextEdge]_vars

-----------------------------------------------------------------------------
\* Requests served concurrently.  Each request runs in a task of its own with
\* a database session of its own (async with async_session()), and a task
\* gives way to the others at its awaits.  A step of a task runs from one
\* await on the event and contact tables to the next: the checks before the
\* handler reaches the store adapter, the lookup of the row by id, the commit,
\* the refresh.  The database applies each statement to the rows committed
\* at that moment, refuses a second row with the same primary key, and the
\* ORM emits an UPDATE of the columns that the task changed on the row it
\* had loaded.  An exception leaves the application unhandled, the session
\* is rolled back, and the client is answered 500.

\* the same event with another title
EvMoved ==
    ICalText(<< ("uid" :> id_e1) @@ ("summary" :> "Retro")
             @@ ("description" :> "agenda") @@ ("location" :> "Room 1")
             @@ ("dtstart" :> DateTimeValue(129, "UTC"))
             @@ ("dtend" :> DateTimeValue(130, "UTC"))
             @@ ("status" :> "TENTATIVE") >>)

\* what alice sends at the same time: writes of one event and of one
\* contact, a read, and a write that is refused
RaceRequests ==
    {Put_(AliceAuth, EventPath(s_alice, id_ka, id_e1), b) : b \in {EvFull, EvMin, EvMoved}}
    \cup {Put_(AliceAuth, ContactPath(s_alice, id_ba, id_c1), b) : b \in {CtFull, CtMin}}
    \cup {Delete_(AliceAuth, EventPath(s_alice, id_ka, id_e1)),
          Get_(AliceAuth, EventPath(s_alice, id_ka, id_e1)),
          Put_(AliceAuth, EventPath(s_alice, id_kb, id_e1), EvFull)}

\* the table that the request of a task is about
TableOf(request, ev, ct) == IF RouteOf[request.path].type = "event" THEN ev ELSE ct

\* the table that holds the row a session has loaded, or nothing
AsTable(seen) == IF seen = {} THEN EmptyMap ELSE (TheRow(seen).id :> TheRow(seen))

\* the row as the task's session holds it when upsert_event or
\* upsert_contact has assigned the body's values to the row it had loaded
\* (or has made a new row), stamped at the flush
PendingRow(task, db) ==
    LET route == RouteOf[task.request.path]
        mine == AsTable(task.seen)
    IN  IF route.type = "event"
        THEN upsert_event([db EXCEPT !.events = mine], route.rid, route.col,
                          TheRow(ical_to_event_data(task.request.body))).row
        ELSE upsert_contact([db EXCEPT !.contacts = mine], route.rid, route.col,
                            TheRow(vcard_to_contact_data(task.request.body))).row

\* db.commit() of a PUT: the flush inserts the new row, or updates the
\* columns that the task changed, in the table as it is now.
\*   [ok |-> whether the commit succeeded, table |-> the table after it]
CommitUpsert(task, table, db) ==
    LET row == PendingRow(task, db)
    IN  IF task.seen = {}
        THEN IF row.id \in DOMAIN table
             THEN [ok |-> FALSE, table |-> table]
             ELSE [ok |-> TRUE, table |-> DbPut(table, row)]
        ELSE LET old == TheRow(task.seen)
                 cols == {k \in DOMAIN old : row[k] # old[k]}
             IN  IF cols = {} THEN [ok |-> TRUE, table |-> table]
                 ELSE IF row.id \notin DOMAIN table
                 THEN [ok |-> FALSE, table |-> table]
                 ELSE [ok |-> TRUE,
                       table |-> DbPut(table,
                                   [k \in DOMAIN old |->
                                       IF k \in cols THEN row[k] ELSE table[row.id][k]])]

\* a request arrives and gets a task
Arrive(t) ==
    /\ tasks[t].pc = "idle"
    /\ \E request \in RaceRequests :
          tasks' = [tasks EXCEPT ![t].pc = "arrived", ![t].request = request]
    /\ UNCHANGED <<events, contacts, now, last, putEtag, resolved>>

\* _dispatch up to the store adapter: credentials, route, ownership and
\* body are checked; a read, and a write that is refused, is answered
Begin(t) ==
    /\ tasks[t].pc = "arrived"
    /\ LET request == tasks[t].request
           resp == _dispatch(request, DB(events, contacts, now))
       IN  tasks' =
             IF request.method = "PUT" /\ resp.status = 201
             THEN [tasks EXCEPT ![t].pc = "lookup"]
             ELSE IF request.method = "DELETE" /\ resp.status = 204
             THEN [tasks EXCEPT ![t].pc = "loaded",
                                ![t].seen = DbGet(TableOf(request, events, contacts),
                                                  RouteOf[request.path].rid)]
             ELSE [tasks EXCEPT ![t].pc = "done", ![t].status = resp.status]
    /\ UNCHANGED <<events, contacts, now, last, putEtag, resolved>>

\* a lookup that stores a new row at once when it finds none
Lookup_creating(t) ==
    /\ tasks[t].pc = "lookup"
    /\ LET request == tasks[t].request
           isEvent == RouteOf[request.path].type = "event"
           table == TableOf(request, events, contacts)
           found == DbGet(table, RouteOf[request.path].rid)
           made == IF found = {}
                   THEN {PendingRow(tasks[t], DB(events, contacts, now))} ELSE found
       IN  /\ tasks' = [tasks EXCEPT ![t].pc = "loaded", ![t].seen = made]
           /\ events' = IF isEvent THEN DbPut(events, TheRow(made)) ELSE events
           /\ contacts' = IF isEvent THEN contacts ELSE DbPut(contacts, TheRow(made))
    /\ UNCHANGED <<now, last, putEtag, resolved>>

\* ev = await db.get(CalendarEventDB, event_id) in the upsert
Lookup(t) ==
    /\ tasks[t].pc = "lookup"
    /\ tasks' = [tasks EXCEPT
                    ![t].pc = "loaded",
                    ![t].seen = DbGet(TableOf(tasks[t].request, events, contacts),
                                      RouteOf[tasks[t].request.path].rid)]
    /\ UNCHANGED <<events, contacts, now, last, putEtag, resolved>>

\* await db.commit(): of a PUT, the insert or update; of a DELETE, the
\* delete of the row if it is still there, and the answer 204
Commit(t) ==
    /\ tasks[t].pc = "loaded"
    /\ LET request == tasks[t].request
           isEvent == RouteOf[request.path].type = "event"
           table == TableOf(request, events, contacts)
           done ==
             IF request.method = "DELETE"
             THEN [ok |-> TRUE, table |-> DbDelete(table, RouteOf[request.path].rid)]
             ELSE CommitUpsert(tasks[t], table, DB(events, contacts, now))
       IN  /\ events' = IF isEvent THEN done.table ELSE events
           /\ contacts' = IF isEvent THEN contacts ELSE done.table
           /\ now' = IF done.table # table /\ request.method = "PUT" THEN now + 1 ELSE now
           /\ tasks' =
                 IF ~done.ok
                 THEN [tasks EXCEPT ![t].pc = "done", ![t].status = 500]
                 ELSE IF request.method = "DELETE"
                 THEN [tasks EXCEPT ![t].pc = "done", ![t].status = 204,
                                    ![t].commits = @ + 1]
                 ELSE [tasks EXCEPT ![t].pc = "committed", ![t].commits = @ + 1]
    /\ UNCHANGED <<last, putEtag, resolved>>

\* await db.refresh(ev), and the answer 201; the refresh fails when the row
\* is gone
Finish(t) ==
    /\ tasks[t].pc = "committed"
    /\ LET request == tasks[t].request
           found == DbGet(TableOf(request, events, contacts), RouteOf[request.path].rid)
       IN  tasks' = [tasks EXCEPT ![t].pc = "done",
                                  ![t].status = IF found = {} THEN 500 ELSE 201]
    /\ UNCHANGED <<events, contacts, now, last, putEtag, resolved>>

\* the client goes away: the task is cancelled at the await it waits in
Cancel(t) ==
    /\ tasks[t].pc \in {"arrived", "lookup", "loaded", "committed"}
    /\ tasks' = [tasks EXCEPT ![t].pc = "cancelled"]
    /\ UNCHANGED <<events, contacts, now, last, putEtag, resolved>>

\* The store when the tasks start: empty, or holding the event and the
\* contact that alice has put before.
StoredBefore ==
    _dispatch(Put_(AliceAuth, ContactPath(s_alice, id_ba, id_c1), CtFull),
              _dispatch(Put_(AliceAuth, EventPath(s_alice, id_ka, id_e1), EvFull),
                        DB(EmptyMap, EmptyMap, 0)).db).db

InitRace ==
    /\ \E db \in {DB(EmptyMap, EmptyMap, 0), StoredBefore} :
          /\ events = db.events
          /\ contacts = db.contacts
          /\ now = db.now
    /\ last = [method |-> "NONE", rtype |-> "none", rid |-> <<>>, depth |-> NoVal,
               report |-> "none",
               authed |-> FALSE, foreign |-> FALSE, user |-> <<>>, status |-> 0,
               count |-> 0, path |-> <<>>, body |-> NoDoc, etag |-> <<>>]
    /\ putEtag = EmptyMap
    /\ resolved = [segs |-> <<>>, slashes |-> "plain", path |-> <<SLASH>>,
                   done |-> FALSE, route |-> [type |-> "none"]]
    /\ tasks = [t \in TaskIds |-> IdleTask]

NextRace ==
    \E t \in TaskIds :
        \/ Arrive(t)
        \/ Begin(t)
        \/ Lookup(t)
        \/ Commit(t)
        \/ Finish(t)
        \/ Cancel(t)

SpecRace == InitRace /\ [][NextRace]_vars

-----------------------------------------------------------------------------
\* Properties

\* the store as the next request finds it
Store == DB(events, contacts, now)

\* what the client receives
Seen(resp) == [status |-> resp.status, headers |-> resp.headers, body |-> resp.body]

\* the valid credentials of a user
AuthOf(un) == IF un = s_alice THEN AliceAuth ELSE BobAuth

\* a body the method accepts on the path, so that a refusal is not due to it
BodyFor(method, path) ==
    IF method = "PUT"
    THEN IF _parse_path(path).type = "contact" THEN CtFull ELSE EvFull
    ELSE IF method = "REPORT" THEN CalQuery
    ELSE NoDoc

ProbePaths ==
    {RootPath, PathOf(<<s_x>>), PrincipalPath(s_alice), CalendarPath(s_alice, id_ka),
     EventPath(s_alice, id_ka, id_e1), ContactPath(s_bob, id_bb, id_c1)}

\* C1: a request that carries no valid Basic credentials (no header, another
\* scheme, an undecodable token, no colon, an unknown user, an inactive
\* user, a user without password hash, a wrong password) is answered 401
\* with the header WWW-Authenticate: Basic realm="WebDAV", whatever the
\* method and the path, and the store stays as it was.
C1_NoCredentials401 ==
    /\ \A a \in BadAuths, m \in Methods, p \in ProbePaths :
          \A resp \in {_dispatch(Request(m, a, p, NoVal, BodyFor(m, p)), Store)} :
              /\ resp.status = 401
              /\ "WWW-Authenticate" \in DOMAIN resp.headers
              /\ resp.headers["WWW-Authenticate"] = "Basic realm=\"WebDAV\""
              /\ resp.db = Store
    /\ (last.method # "NONE" /\ ~last.authed) => last.status = 401

\* a GET with bad credentials of an event that exists was answered 401
C1_Witness ==
    /\ last.method = "GET" /\ ~last.authed /\ last.status = 401
    /\ last.rid \in DOMAIN events

\* paths under the name of user o, one of each route type
PathsUnder(o) ==
    {PrincipalPath(o), CalHomePath(o), AbHomePath(o),
     CalendarPath(o, id_ka), CalendarPath(o, id_kb), BookPath(o, id_ba),
     EventPath(o, id_ka, id_e1), EventPath(o, id_kb, id_e1), ContactPath(o, id_ba, id_c1)}

\* C2: an authenticated request to a path whose username segment is not the
\* user's own username is answered 403 for every method (OPTIONS and
\* unsupported methods included, so no handler ran), whether or not the
\* addressed thing exists, and the store stays as it was.
C2_OtherUsername403 ==
    /\ \A who \in {<<s_alice, s_bob>>, <<s_alice, s_eve>>, <<s_bob, s_alice>>} :
          \A m \in Methods, p \in PathsUnder(who[2]) :
              \A resp \in {_dispatch(Request(m, AuthOf(who[1]), p, NoVal, BodyFor(m, p)), Store)} :
                  /\ resp.status = 403
                  /\ resp.db = Store
    /\ last.foreign => last.status = 403

\* a GET under another username of a resource that does not exist: 403, not 404
C2_Witness ==
    /\ last.method = "GET" /\ last.foreign /\ last.status = 403
    /\ last.rid \notin DOMAIN events

\* the store without the collections of other users and the rows in them
OwnedBy(db, user) ==
    LET cals == {c \in DOMAIN db.calendars : db.calendars[c].user_id = user.id}
        books == {b \in DOMAIN db.books : db.books[b].user_id = user.id}
        evs == {e \in DOMAIN db.events : db.events[e].calendar_id \in cals}
        cts == {c \in DOMAIN db.contacts : db.contacts[c].address_book_id \in books}
    IN  [db EXCEPT !.calendars = [c \in cals |-> db.calendars[c]],
                   !.books = [b \in books |-> db.books[b]],
                   !.events = [e \in evs |-> db.events[e]],
                   !.contacts = [c \in cts |-> db.contacts[c]]]

ReadsOf(un) == IF un = s_alice THEN AliceReads ELSE BobReads

\* C3: what PROPFIND, REPORT and GET answer to a user is what they answer in
\* the store from which every collection of other users, and every row in
\* one, has been removed: the rows of others show nowhere, and somebody
\* else's calendar, address book, event or contact is answered like a
\* missing one.
C3_OthersRowsInvisible ==
    \A un \in {s_alice, s_bob} :
        \A own \in {OwnedBy(Store, UserNamed(un))} :
            \A request \in ReadsOf(un) :
                Seen(_dispatch(request, Store)) = Seen(_dispatch(request, own))

\* alice's GET of an event id that exists in bob's calendar was answered 404
C3_Witness ==
    /\ last.method = "GET" /\ last.user = s_alice /\ last.status = 404
    /\ last.rid \in DOMAIN events
    /\ events[last.rid].calendar_id = id_kb

\* the fields of a decoded event that the round trip is about; an absent
\* STATUS is the default status
EventFields(data) ==
    [title |-> MapGet(data, "title", ""),
     description |-> MapGet(data, "description", NoVal),
     location |-> MapGet(data, "location", NoVal),
     all_day |-> MapGet(data, "all_day", FALSE),
     start |-> MapGet(data, "start", NoTime),
     end |-> MapGet(data, "end", NoTime),
     status |-> MapGet(data, "status", "confirmed")]

\* C4: when the last request was a PUT to an event path answered 201, a GET
\* of that path by the same user is answered 200 with an iCalendar document
\* whose SUMMARY, DESCRIPTION, LOCATION, DTSTART, DTEND and STATUS decode to
\* the values of the PUT body.
C4_EventRoundTrip ==
    (last.method = "PUT" /\ last.status = 201 /\ last.rtype = "event") =>
        \A got \in {_dispatch(Get_(AuthOf(last.user), last.path), Store)} :
            /\ got.status = 200
            /\ ical_to_event_data(got.body) # {}
            /\ EventFields(TheRow(ical_to_event_data(got.body)))
                 = EventFields(TheRow(ical_to_event_data(last.body)))

\* the fields of a decoded contact that the round trip is about
ContactFields(data) ==
    [name |-> MapGet(data, "name", NoVal),
     first_name |-> MapGet(data, "first_name", NoVal),
     last_name |-> MapGet(data, "last_name", NoVal),
     organization |-> MapGet(data, "organization", NoVal),
     emails |-> MapGet(data, "emails", <<>>),
     phones |-> MapGet(data, "phones", <<>>),
     addresses |-> MapGet(data, "addresses", <<>>),
     notes |-> MapGet(data, "notes", NoVal)]

\* C5: when the last request was a PUT to a contact path answered 201, a GET
\* of that path by the same user is answered 200 with a vCard whose FN, N,
\* ORG, EMAIL, TEL, ADR and NOTE decode to the values of the PUT body.
C5_ContactRoundTrip ==
    (last.method = "PUT" /\ last.status = 201 /\ last.rtype = "contact") =>
        \A got \in {_dispatch(Get_(AuthOf(last.user), last.path), Store)} :
            /\ got.status = 200
            /\ got.body.kind = "vcard"
            /\ ContactFields(TheRow(vcard_to_contact_data(got.body)))
                 = ContactFields(TheRow(vcard_to_contact_data(last.body)))

\* a row without its modification stamp
Unstamped(row) == [row EXCEPT !.updated_at = NoTime]

\* C6: a PUT answered 201 that changes a stored field of a row that existed
\* returns an ETag other than the one the row had before the PUT.
C6_EtagChangesOnUpdate ==
    [][ /\ \A id \in DOMAIN events \cap DOMAIN events' :
              (/\ last'.method = "PUT" /\ last'.status = 201
               /\ last'.rtype = "event" /\ last'.rid = id
               /\ Unstamped(events'[id]) # Unstamped(events[id]))
              => last'.etag # _prop_event(events[id])["getetag"]
        /\ \A id \in DOMAIN contacts \cap DOMAIN contacts' :
              (/\ last'.method = "PUT" /\ last'.status = 201
               /\ last'.rtype = "contact" /\ last'.rid = id
               /\ Unstamped(contacts'[id]) # Unstamped(contacts[id]))
              => last'.etag # _prop_contact(contacts[id])["getetag"] ]_vars

\* the event made by the full body (it has a location) has been replaced by
\* the all-day body, and the ETag returned is that of the row now
C6_Witness ==
    /\ last.method = "PUT" /\ last.status = 201 /\ last.rid = id_e1
    /\ last.body = EvMin
    /\ id_e1 \in DOMAIN events
    /\ events[id_e1].location = "Room 1" /\ events[id_e1].all_day
    /\ last.etag = _prop_event(events[id_e1])["getetag"]

\* the response of a multistatus that names href (none: the empty set)
ResponsesFor(resp, href) ==
    IF resp.body.kind # "multistatus" THEN {}
    ELSE {r \in SeqRange(resp.body.responses) : r.href = href}

\* C7: for every path with a successful PUT on record, a GET of it that is
\* answered 200 carries the ETag that the last such PUT returned, and
\* PROPFIND and a multiget REPORT give that resource the same getetag.
C7_GetEtagIsLastPutEtag ==
    \A p \in DOMAIN putEtag :
        LET route == RouteOf[p]
            auth == AuthOf(route.username)
            href == ROOT_PATH \o p
            multiget == IF route.type = "event"
                        THEN XmlDoc(C("calendar-multiget"), {"getetag"}, <<href>>)
                        ELSE XmlDoc(CR("addressbook-multiget"), {"getetag"}, <<href>>)
            collection == IF route.type = "event"
                          THEN CalendarPath(route.username, route.col)
                          ELSE BookPath(route.username, route.col)
        IN  \A got \in {_dispatch(Get_(auth, p), Store)} :
                got.status = 200 =>
                    /\ got.headers["ETag"] = putEtag[p]
                    /\ \A r \in ResponsesFor(_dispatch(Propfind_(auth, p, "0"), Store), href) :
                          r.prop["getetag"] = got.headers["ETag"]
                    /\ \A r \in ResponsesFor(_dispatch(Report_(auth, collection, multiget), Store), href) :
                          r.prop["getetag"] = got.headers["ETag"]

\* the ctag that PROPFIND reports for a calendar, for an address book
CalendarCtag(c) == _prop_calendar(Store, ROOT_PATH, Calendars[c])["getctag"]
BookCtag(b) == _prop_addressbook(Store, ROOT_PATH, AddressBooks[b])["getctag"]

EventsIn(c) == {e \in RowsOf(events) : e.calendar_id = c}
ContactsIn(b) == {c \in RowsOf(contacts) : c.address_book_id = b}

\* C8: a step that creates, changes or deletes a child of a calendar or of
\* an address book changes the ctag reported for that collection.
C8_CtagChangesOnWrite ==
    [][ /\ \A c \in DOMAIN Calendars :
              EventsIn(c)' # EventsIn(c) => CalendarCtag(c)' # CalendarCtag(c)
        /\ \A b \in DOMAIN AddressBooks :
              ContactsIn(b)' # ContactsIn(b) => BookCtag(b)' # BookCtag(b) ]_vars

\* what reads report: the ctag of every collection, the ETag of every row
Reported ==
    [calendars |-> [c \in DOMAIN Calendars |-> CalendarCtag(c)],
     books |-> [b \in DOMAIN AddressBooks |-> BookCtag(b)],
     events |-> [e \in DOMAIN events |-> _prop_event(events[e])["getetag"]],
     contacts |-> [c \in DOMAIN contacts |-> _prop_contact(contacts[c])["getetag"]]]

\* C9: while the last request served is an OPTIONS, PROPFIND, REPORT or GET
\* (the step that serves it, and time passing after it), the tables, every
\* ctag and every ETag stay what they were.
C9_ReadsChangeNothing ==
    [][ last'.method \in {"OPTIONS", "PROPFIND", "REPORT", "GET"} =>
            /\ events' = events
            /\ contacts' = contacts
            /\ Reported' = Reported ]_vars

\* a calendar with an event was listed, later than the event was written
C9_Witness ==
    /\ last.method = "PROPFIND" /\ last.rtype = "calendar" /\ last.status = 207
    /\ last.count = 2
    /\ \E e \in RowsOf(events) : e.calendar_id = id_ka /\ e.updated_at < now

\* the collections of a user with the number of their immediate children
CollectionsOf(un) ==
    LET user == UserNamed(un)
        cals == {c \in DOMAIN Calendars : Calendars[c].user_id = user.id}
        books == {b \in DOMAIN AddressBooks : AddressBooks[b].user_id = user.id}
    IN  {<<CalHomePath(un), Cardinality(cals)>>, <<AbHomePath(un), Cardinality(books)>>}
        \cup {<<CalendarPath(un, c), Cardinality(EventsIn(c))>> : c \in cals}
        \cup {<<BookPath(un, b), Cardinality(ContactsIn(b))>> : b \in books}

\* the paths of the events and contacts in the collections of a user
ResourcesOf(un) ==
    LET user == UserNamed(un)
    IN  {EventPath(un, e.calendar_id, e.id) :
            e \in {x \in RowsOf(events) : Calendars[x.calendar_id].user_id = user.id}}
        \cup {ContactPath(un, c.address_book_id, c.id) :
                c \in {x \in RowsOf(contacts) : AddressBooks[x.address_book_id].user_id = user.id}}

\* C10: the owner's PROPFIND of a calendar, an address book, the calendar
\* home or the address-book home is answered 207 with one response when
\* Depth is 0, and with one more than the collection has children when Depth
\* is 1 or absent; of an event or a contact, with one response.
C10_DepthCounts ==
    \A un \in {s_alice, s_bob} :
        /\ \A pc \in CollectionsOf(un), d \in {"0", "1", NoVal} :
              \A resp \in {_dispatch(Propfind_(AuthOf(un), pc[1], d), Store)} :
                  /\ resp.status = 207
                  /\ ResponseCount(resp) = IF d = "0" THEN 1 ELSE 1 + pc[2]
        /\ \A p \in ResourcesOf(un), d \in {"0", "1", NoVal} :
              \A resp \in {_dispatch(Propfind_(AuthOf(un), p, d), Store)} :
                  /\ resp.status = 207
                  /\ ResponseCount(resp) = 1

\* a calendar with two events was listed at Depth 1: three responses
C10_Witness ==
    /\ last.method = "PROPFIND" /\ last.rtype = "calendar" /\ last.depth = "1"
    /\ last.status = 207 /\ last.count = 3
    /\ Cardinality(EventsIn(id_ka)) = 2

\* lists of at most two elements of S
UpToTwo(S) == {<<>>} \cup {<<a>> : a \in S} \cup {<<a, b>> : a \in S, b \in S}

\* resources that a multiget may name, as (username, collection, id): an
\* event in each calendar alice uses and one under bob's name; contacts
\* likewise.  Each is stored in some states and in others not.
EventNames ==
    {<<s_alice, id_ka, id_e1>>, <<s_alice, id_kw, id_e2>>, <<s_bob, id_kb, id_e2>>}
ContactNames ==
    {<<s_alice, id_ba, id_c1>>, <<s_bob, id_bb, id_c2>>}

CalMultigetOf(names) ==
    XmlDoc(C("calendar-multiget"), {"getetag", "calendar-data"},
           [i \in 1..Len(names) |-> EventHref(names[i][1], names[i][2], names[i][3])])
CardMultigetOf(names) ==
    XmlDoc(CR("addressbook-multiget"), {"getetag", "address-data"},
           [i \in 1..Len(names) |-> ContactHref(names[i][1], names[i][2], names[i][3])])

\* the stored events (contacts) in a collection of the user
EventsOf(un) == {e \in RowsOf(events) : Calendars[e.calendar_id].user_id = UserNamed(un).id}
ContactsOf(un) ==
    {c \in RowsOf(contacts) : AddressBooks[c.address_book_id].user_id = UserNamed(un).id}

\* how many of the names are names of a row stored for another user
OthersAmong(names, rows, mine) ==
    Cardinality({i \in 1..Len(names) :
                    \E r \in rows \ mine : r.id = names[i][3]})

\* the collection a user sends reports to
OwnCalendar(un) == IF un = s_alice THEN id_ka ELSE id_kb
OwnBook(un) == IF un = s_alice THEN id_ba ELSE id_bb

ResponseSet(resp) == SeqRange(resp.body.responses)
NoRepeat(resp) == Cardinality(ResponseSet(resp)) = Len(resp.body.responses)

\* the response that carries an event (a contact) in full
EventInFull(un, e) ==
    [href |-> EventHref(un, e.calendar_id, e.id),
     prop |-> ("getetag" :> Quoted(compute_etag(e.id, e.updated_at)))
           @@ ("getcontenttype" :> "text/calendar; charset=utf-8; component=VEVENT")
           @@ ("calendar-data" :> event_to_ical(e)),
     status |-> "HTTP/1.1 200 OK"]
ContactInFull(un, c) ==
    [href |-> ContactHref(un, c.address_book_id, c.id),
     prop |-> ("getetag" :> Quoted(compute_etag(c.id, c.updated_at)))
           @@ ("getcontenttype" :> "text/vcard; charset=utf-8")
           @@ ("address-data" :> contact_to_vcard(c)),
     status |-> "HTTP/1.1 200 OK"]

QueryBodies(doc) == {doc, WithFilter(doc, TimeRange), WithFilter(doc, PropFilter)}

\* the calendars (address books) of a user
CalendarsOf(un) == {c \in DOMAIN Calendars : Calendars[c].user_id = UserNamed(un).id}
BooksOf(un) == {b \in DOMAIN AddressBooks : AddressBooks[b].user_id = UserNamed(un).id}

\* the hrefs of the children that a PROPFIND Depth 1 of a collection lists
\* (all but the first response, which is the collection)
ChildHrefs(resp) == {resp.body.responses[i].href : i \in 2..Len(resp.body.responses)}

\* C12: a calendar-query on a calendar of the user (an addressbook-query on
\* an address book of the user) is answered 207 with one response, payload
\* inlined, for each event (contact) stored in that collection, with or
\* without filters in the body; the hrefs are those of the children in a
\* PROPFIND Depth 1 of the collection.
C12_QueryListsAllChildren ==
    \A un \in {s_alice, s_bob} :
        /\ \A c \in CalendarsOf(un), body \in QueryBodies(CalQuery) :
              \A resp \in {_dispatch(Report_(AuthOf(un), CalendarPath(un, c), body), Store)} :
                  /\ resp.status = 207
                  /\ NoRepeat(resp)
                  /\ ResponseSet(resp) = {EventInFull(un, e) : e \in EventsIn(c)}
                  /\ {r.href : r \in ResponseSet(resp)}
                       = ChildHrefs(_dispatch(Propfind_(AuthOf(un), CalendarPath(un, c), "1"), Store))
        /\ \A b \in BooksOf(un), body \in QueryBodies(CardQuery) :
              \A resp \in {_dispatch(Report_(AuthOf(un), BookPath(un, b), body), Store)} :
                  /\ resp.status = 207
                  /\ NoRepeat(resp)
                  /\ ResponseSet(resp) = {ContactInFull(un, c) : c \in ContactsIn(b)}
                  /\ {r.href : r \in ResponseSet(resp)}
                       = ChildHrefs(_dispatch(Propfind_(AuthOf(un), BookPath(un, b), "1"), Store))

\* a calendar-query with a time range listed an event that starts after the
\* range has ended
C12_Witness ==
    /\ last.method = "REPORT" /\ last.report = "calendar-query"
    /\ last.rtype = "calendar" /\ last.status = 207 /\ last.count = 1
    /\ \E e \in EventsIn(id_kw) : e.start > TimeRange.end

\* paths under a user's name with the route type each is of
TypedPaths(un) ==
    {<<RootPath, "root">>, <<PathOf(<<s_x>>), "unknown">>,
     <<PrincipalPath(un), "principal">>,
     <<CalHomePath(un), "cal-home">>, <<AbHomePath(un), "ab-home">>,
     <<CalendarPath(un, id_ka), "calendar">>, <<CalendarPath(un, id_kb), "calendar">>,
     <<CalendarPath(un, id_zz), "calendar">>,
     <<BookPath(un, id_ba), "addressbook">>, <<BookPath(un, id_bb), "addressbook">>,
     <<EventPath(un, id_ka, id_e1), "event">>,
     <<ContactPath(un, id_ba, id_c1), "contact">>}

\* well-formed report bodies: the four reports, a report of WebDAV sync, and
\* the name of a CalDAV report in the CardDAV namespace
ReportBodies ==
    {CalMultigetBoth, WithFilter(CalQuery, TimeRange), CardMultigetBoth, CardQuery,
     SyncCollection, XmlDoc(CR("calendar-query"), {"getetag"}, <<>>)}

\* the reports the spec names, per route type
SupportedReports(rtype) ==
    IF rtype = "calendar"
    THEN {[ns |-> "urn:ietf:params:xml:ns:caldav", name |-> n] :
            n \in {"calendar-multiget", "calendar-query"}}
    ELSE IF rtype = "addressbook"
    THEN {[ns |-> "urn:ietf:params:xml:ns:carddav", name |-> n] :
            n \in {"addressbook-multiget", "addressbook-query"}}
    ELSE {}

\* C13: a well-formed REPORT of a user under their own name is answered 207
\* when the route is a calendar and the report a CalDAV multiget or query,
\* or the route an address book and the report a CardDAV multiget or query,
\* and 403 in every other case: the other family's report, another report
\* name, a route that is not a calendar or address book.
C13_ReportSupport ==
    \A un \in {s_alice, s_bob} :
        \A tp \in TypedPaths(un), body \in ReportBodies :
            \A resp \in {_dispatch(Report_(AuthOf(un), tp[1], body), Store)} :
                /\ resp.status = IF body.tag \in SupportedReports(tp[2]) THEN 207 ELSE 403
                /\ resp.db = Store

\* a calendar-query sent to an address book that holds a contact: 403
C13_Witness ==
    /\ last.method = "REPORT" /\ last.report = "calendar-query"
    /\ last.rtype = "addressbook" /\ last.status = 403
    /\ ContactsIn(id_ba) # {}

\* paths under a user's name to events and contacts, in the user's
\* collections, in somebody else's and in a missing one, with the id and
\* the route type; the id is stored in some states and in others not
ResourcePaths(un) ==
    {<<EventPath(un, col, rid), rid, "event">> :
        col \in {id_ka, id_kw, id_kb, id_zz}, rid \in EventIds}
    \cup {<<ContactPath(un, col, rid), rid, "contact">> :
            col \in {id_ba, id_bb, id_zz}, rid \in ContactIds}

\* whether the id is that of an event (a contact) stored in a collection of
\* the user
StoredFor(un, rtype, rid) ==
    IF rtype = "event" THEN \E e \in EventsOf(un) : e.id = rid
    ELSE \E c \in ContactsOf(un) : c.id = rid

UndecodableFor(rtype) ==
    IF rtype = "event" THEN {GarbageText, ICalText(<<>>)}
    ELSE {GarbageText, VCardText(EmptyMap)}

\* bodies that the codec of the route decodes
DecodableFor(rtype) == IF rtype = "event" THEN {EvFull, EvMin} ELSE {CtFull, CtMin}

\* whether the collection in the path is one of the user's
TargetOwned(un, rtype, path) ==
    IF rtype = "event" THEN \E c \in CalendarsOf(un) : \E rid \in EventIds : path = EventPath(un, c, rid)
    ELSE \E b \in BooksOf(un) : \E rid \in ContactIds : path = ContactPath(un, b, rid)

\* C15: a PUT to an event or contact path with a body that its codec does
\* not decode is answered 400 and changes nothing in the store, whether the
\* collection in the path is the user's, somebody else's or missing.
C15_UndecodablePut400 ==
    \A un \in {s_alice, s_bob} :
        \A rp \in ResourcePaths(un) :
            \A body \in UndecodableFor(rp[3]) :
                \A resp \in {_dispatch(Put_(AuthOf(un), rp[1], body), Store)} :
                    /\ resp.status = 400
                    /\ resp.db = Store

\* C16: a PUT with a body that decodes, to a path whose collection is
\* missing or is not the user's, is answered 403, and the tables stay as
\* they were (also when a row of that id is stored, for the user or not).
C16_PutNeedsOwnCollection ==
    \A un \in {s_alice, s_bob} :
        \A rp \in {x \in ResourcePaths(un) : ~TargetOwned(un, x[3], x[1])} :
            \A body \in DecodableFor(rp[3]) :
                \A resp \in {_dispatch(Put_(AuthOf(un), rp[1], body), Store)} :
                    /\ resp.status = 403
                    /\ resp.db.events = events
                    /\ resp.db.contacts = contacts

\* alice's PUT of her stored event to a path through bob's calendar: 403
C16_Witness ==
    /\ last.method = "PUT" /\ last.user = s_alice /\ ~last.foreign
    /\ last.rtype = "event" /\ last.status = 403
    /\ \E e \in EventsOf(s_alice) : e.id = last.rid

\* the table after an upsert of id: the id is in it, no other row is added,
\* removed or changed
UpsertedInto(before, after, id) ==
    /\ DOMAIN after = DOMAIN before \cup {id}
    /\ \A k \in DOMAIN before \ {id} : after[k] = before[k]

\* the column of a contact that holds a decoded field, and its value
ContactColumn ==
    [name |-> "full_name", first_name |-> "given_name", last_name |-> "surname",
     organization |-> "organization", emails |-> "emails", phones |-> "phones",
     addresses |-> "addresses", notes |-> "notes"]
ContactValue(data, k) ==
    IF k \in {"emails", "phones", "addresses"} THEN JsonDumps(data[k]) ELSE data[k]

\* C17: a PUT answered 201 leaves a row with the id of the path: a new id
\* adds one row, in the collection of the path; a stored id keeps the number
\* of rows; in both cases the fields that the body carries have the body's
\* values, no other row changes, and the response has an ETag header and a
\* Location header that ends in the file name of the resource.
C17_PutUpserts ==
    [][ (last'.method = "PUT" /\ last'.status = 201) =>
          \A resp \in {_dispatch(Put_(AuthOf(last'.user), last'.path, last'.body), Store)} :
              /\ resp.status = 201
              /\ "ETag" \in DOMAIN resp.headers /\ last'.etag = resp.headers["ETag"]
              /\ "Location" \in DOMAIN resp.headers
              /\ IF last'.rtype = "event"
                 THEN /\ contacts' = contacts
                      /\ UpsertedInto(events, events', last'.rid)
                      /\ last'.rid \notin DOMAIN events =>
                            events'[last'.rid].calendar_id = RouteOf[last'.path].col
                      /\ \A data \in ical_to_event_data(last'.body) :
                            \A k \in EVENT_KEYS \cap DOMAIN data :
                                events'[last'.rid][k] = data[k]
                      /\ EndsWith(resp.headers["Location"], IcsName(last'.rid))
                 ELSE /\ events' = events
                      /\ UpsertedInto(contacts, contacts', last'.rid)
                      /\ last'.rid \notin DOMAIN contacts =>
                            contacts'[last'.rid].address_book_id = RouteOf[last'.path].col
                      /\ \A data \in vcard_to_contact_data(last'.body) :
                            \A k \in DOMAIN ContactColumn \cap DOMAIN data :
                                contacts'[last'.rid][ContactColumn[k]] = ContactValue(data, k)
                      /\ EndsWith(resp.headers["Location"], VcfName(last'.rid)) ]_vars

\* the contact made by the full vCard has been overwritten by the short one:
\* still one contact, with the one e-mail address of the short vCard
C17_Witness ==
    /\ last.method = "PUT" /\ last.status = 201 /\ last.rtype = "contact"
    /\ last.body = CtMin /\ last.etag # <<>>
    /\ DOMAIN contacts = {id_c1}
    /\ contacts[id_c1].organization = "ACME"
    /\ contacts[id_c1].emails = JsonDumps(<<[type |-> "home", value |-> "jane@home.test"]>>)

UnknownPaths ==
    {PathOf(<<s_x>>),
     PathOf(<<s_calendars>>),
     PathOf(<<s_calendars, s_alice, id_ka, s_txt>>),
     PathOf(<<s_addressbooks, s_alice, id_ba, IcsName(id_c1)>>),
     PathOf(<<s_calendars, s_alice, id_ka, IcsName(id_e1), s_x>>),
     PathOf(<<s_principals, s_alice, s_x>>)}

\* C19: alice's PROPFIND, REPORT, GET, PUT and DELETE of a path that
\* resolves to no route are each answered 404.
C19_UnknownRoute404 ==
    \A p \in UnknownPaths :
        /\ _dispatch(Propfind_(AliceAuth, p, NoVal), Store).status = 404
        /\ _dispatch(Report_(AliceAuth, p, CalQuery), Store).status = 404
        /\ _dispatch(Get_(AliceAuth, p), Store).status = 404
        /\ _dispatch(Put_(AliceAuth, p, EvFull), Store).status = 404
        /\ _dispatch(Delete_(AliceAuth, p), Store).status = 404

\* the answer that OPTIONS is meant to get
IsOptionsAnswer(resp) ==
    /\ resp.status = 200
    /\ "DAV" \in DOMAIN resp.headers
    /\ resp.headers["DAV"] = "1, 3, calendar-access, addressbook"
    /\ "Allow" \in DOMAIN resp.headers
    /\ resp.headers["Allow"] = "OPTIONS, PROPFIND, REPORT, GET, PUT, DELETE"

\* C20 as stated: OPTIONS is answered 200 with the DAV and Allow headers
\* for every path and every Authorization header, valid or not, in every
\* state of the store.
C20_OptionsAlways200 ==
    \A a \in BadAuths \cup {AliceAuth, BobAuth}, p \in ProbePaths :
        IsOptionsAnswer(_dispatch(Request("OPTIONS", a, p, NoVal, NoDoc), Store))

\* C20, amended: OPTIONS with valid credentials, on a path that has no
\* username segment or the user's own, is answered 200 with the header
\* DAV: 1, 3, calendar-access, addressbook and the Allow header of the six
\* methods, for every such path (a route or not, the thing stored or not)
\* and in every state of the store, which it leaves unchanged.
C20_OptionsAfterGate ==
    \A un \in {s_alice, s_bob} :
        \A p \in UnknownPaths \cup {<<>>}
                 \cup {tp[1] : tp \in TypedPaths(un)} \cup {rp[1] : rp \in ResourcePaths(un)} :
            \A resp \in {_dispatch(Request("OPTIONS", AuthOf(un), p, NoVal, NoDoc), Store)} :
                /\ IsOptionsAnswer(resp)
                /\ resp.db = Store

\* alice's OPTIONS of a path that is no route, with rows in the store
C20_Witness ==
    /\ last.method = "OPTIONS" /\ last.user = s_alice /\ last.rtype = "unknown"
    /\ last.status = 200
    /\ events # EmptyMap /\ contacts # EmptyMap

\* the two headers that announce the capabilities
HasDavHeaders(resp) ==
    /\ "DAV" \in DOMAIN resp.headers
    /\ resp.headers["DAV"] = "1, 3, calendar-access, addressbook"
    /\ "Allow" \in DOMAIN resp.headers
    /\ resp.headers["Allow"] = "OPTIONS, PROPFIND, REPORT, GET, PUT, DELETE"

\* C21: every response carries the headers DAV: 1, 3, calendar-access,
\* addressbook and Allow: OPTIONS, PROPFIND, REPORT, GET, PUT, DELETE,
\* whatever its status: 200, 201, 204, 207, 400, 401, 403, 404 or 405.
C21_EveryResponseHasDavHeaders ==
    \A request \in Requests : HasDavHeaders(_dispatch(request, Store))

\* C22: alice's PROPFIND and REPORT whose body is not well-formed XML are
\* each answered 400, on her collections, her homes and the root.
C22_MalformedXml400 ==
    \A m \in {"PROPFIND", "REPORT"} :
        \A p \in {RootPath, CalHomePath(s_alice), CalendarPath(s_alice, id_ka),
                  BookPath(s_alice, id_ba)} :
            _dispatch(Request(m, AliceAuth, p, NoVal, XmlGarbage), Store).status = 400

\* the variant that the table of routes gives for a list of non-empty
\* segments
RouteByTable(segs) ==
    LET n == Len(segs)
        named(seg, ext) == Len(seg) >= 1 /\ seg[Len(seg)] = ext
        stem(seg) == SubSeq(seg, 1, Len(seg) - 1)
    IN  CASE n = 0 -> [type |-> "root"]
          [] n = 2 /\ segs[1] = s_principals ->
                [type |-> "principal", username |-> segs[2]]
          [] n = 2 /\ segs[1] = s_calendars ->
                [type |-> "cal-home", username |-> segs[2]]
          [] n = 3 /\ segs[1] = s_calendars ->
                [type |-> "calendar", username |-> segs[2], col |-> segs[3]]
          [] n = 4 /\ segs[1] = s_calendars /\ named(segs[4], ".ics") ->
                [type |-> "event", username |-> segs[2], col |-> segs[3],
                 rid |-> stem(segs[4])]
          [] n = 2 /\ segs[1] = s_addressbooks ->
                [type |-> "ab-home", username |-> segs[2]]
          [] n = 3 /\ segs[1] = s_addressbooks ->
                [type |-> "addressbook", username |-> segs[2], col |-> segs[3]]
          [] n = 4 /\ segs[1] = s_addressbooks /\ named(segs[4], ".vcf") ->
                [type |-> "contact", username |-> segs[2], col |-> segs[3],
                 rid |-> stem(segs[4])]
          [] OTHER -> [type |-> "unknown"]

\* C23: the route that the path resolver returns for a path is the variant
\* of the table for the path's non-empty segments, however the slashes are
\* written: Root for none, Principal, CalendarHome, Calendar, Event with the
\* name before .ics, AddressBookHome, AddressBook, Contact with the name
\* before .vcf, and Unknown for every other path.
C23_RouteTable ==
    resolved.done => resolved.route = RouteByTable(resolved.segs)

\* an event path written with doubled slashes has been resolved to its event
C23_Witness ==
    /\ resolved.done
    /\ resolved.slashes = "doubled"
    /\ resolved.segs = <<s_calendars, s_alice, id_ka, IcsName(id_e1)>>
    /\ resolved.route.type = "event" /\ resolved.route.rid = id_e1

\* the TYPE-carrying lines of a vCard as a GET must return them: the type
\* upper-cased, HOME where the line has none
LinesWithHome(lines) ==
    [i \in 1..Len(lines) |->
        [type |-> IF lines[i].type = NoVal THEN "HOME" ELSE Upper(lines[i].type),
         value |-> lines[i].value]]

\* C24: a PUT of a vCard to an address book of the user is answered 201, and
\* the GET that follows returns a vCard whose EMAIL, TEL and ADR entries are
\* those of the PUT, with type HOME where the PUT gave none and the PUT's
\* type upper-cased where it gave one.
C24_TypeDefaultsToHome ==
    \A un \in {s_alice, s_bob}, rid \in ContactIds, body \in {CtFull, CtMin} :
        \A b \in BooksOf(un) :
            \A put \in {_dispatch(Put_(AuthOf(un), ContactPath(un, b, rid), body), Store)} :
                /\ put.status = 201
                /\ \A get \in {_dispatch(Get_(AuthOf(un), ContactPath(un, b, rid)), put.db)} :
                      /\ get.status = 200
                      /\ get.body.kind = "vcard"
                      /\ \A tag \in {"email", "tel", "adr"} \cap DOMAIN body.props :
                            /\ tag \in DOMAIN get.body.props
                            /\ get.body.props[tag] = LinesWithHome(body.props[tag])

\* the two tasks have served a PUT each, to one path, and neither was
\* cancelled
TwoPutsServed ==
    /\ \A t \in TaskIds : tasks[t].pc = "done" /\ tasks[t].request.method = "PUT"
    /\ tasks[1].request.path = tasks[2].request.path
    /\ TargetOwned(s_alice, RouteOf[tasks[1].request.path].type, tasks[1].request.path)

\* the row of the path holds the values that the body of the request carries
HoldsContentOf(request) ==
    LET route == RouteOf[request.path]
    IN  IF route.type = "event"
        THEN /\ route.rid \in DOMAIN events
             /\ \A data \in ical_to_event_data(request.body) :
                   \A k \in EVENT_KEYS \cap DOMAIN data : events[route.rid][k] = data[k]
        ELSE /\ route.rid \in DOMAIN contacts
             /\ \A data \in vcard_to_contact_data(request.body) :
                   \A k \in DOMAIN ContactColumn \cap DOMAIN data :
                       contacts[route.rid][ContactColumn[k]] = ContactValue(data, k)

\* C25: when two PUTs of the owner to one path have been served
\* concurrently, in whatever order their steps were taken and whether or not
\* the resource was stored before, both have been answered 201 and the row
\* holds the content of one of the two.
C25_ConcurrentPutsLastWriterWins ==
    TwoPutsServed =>
        /\ \A t \in TaskIds : tasks[t].status = 201
        /\ \E t \in TaskIds : HoldsContentOf(tasks[t].request)

\* the values of the body that a task's PUT has to write: those that differ
\* from the row the task had loaded, all of them when it had loaded none
WrittenBy(task, row) ==
    LET request == task.request
        differs(col, v) == task.seen = {} \/ TheRow(task.seen)[col] # v
    IN  IF RouteOf[request.path].type = "event"
        THEN \A data \in ical_to_event_data(request.body) :
                \A k \in EVENT_KEYS \cap DOMAIN data :
                    differs(k, data[k]) => row[k] = data[k]
        ELSE \A data \in vcard_to_contact_data(request.body) :
                \A k \in DOMAIN ContactColumn \cap DOMAIN data :
                    differs(ContactColumn[k], ContactValue(data, k))
                        => row[ContactColumn[k]] = ContactValue(data, k)

\* C26: a task commits at most once, and only when it serves a PUT or a
\* DELETE; every step of a task other than its commit, its cancellation
\* included, leaves both tables as they are; and the step that commits
\* leaves the row of the path complete: gone after a DELETE, with every
\* value that the PUT has to write after a PUT.  So at whatever await a
\* request is cancelled, the row is as it was or entirely written.
C26_OneCommitPerWrite ==
    [][ \A t \in TaskIds :
          LET request == tasks'[t].request
              rid == RouteOf[request.path].rid
              table == TableOf(request, events', contacts')
          IN  /\ tasks'[t].commits <= 1
              /\ request.method \notin {"PUT", "DELETE"} => tasks'[t].commits = 0
              /\ (tasks'[t] # tasks[t] /\ tasks'[t].commits = tasks[t].commits)
                    => (events' = events /\ contacts' = contacts)
              /\ tasks'[t].commits # tasks[t].commits =>
                    /\ tasks[t].commits = 0 /\ tasks[t].pc = "loaded"
                    /\ \A u \in TaskIds \ {t} : tasks'[u] = tasks[u]
                    /\ request.method = "DELETE" => rid \notin DOMAIN table
                    /\ (request.method = "PUT" /\ tasks[t].seen = {})
                          => rid \in DOMAIN table
                    /\ (request.method = "PUT" /\ rid \in DOMAIN table)
                          => WrittenBy(tasks[t], table[rid]) ]_vars

\* a PUT that creates the event is cancelled after its commit, while it
\* waits for the refresh: the row is stored with all the values of the body
C26_Witness ==
    \E t \in TaskIds :
        /\ tasks[t].pc = "cancelled" /\ tasks[t].commits = 1
        /\ tasks[t].request.method = "PUT" /\ tasks[t].seen = {}
        /\ HoldsContentOf(tasks[t].request)

\* the rows of a table that are in a collection of the user
OwnedEvents(table, un) ==
    {e \in RowsOf(table) : Calendars[e.calendar_id].user_id = UserNamed(un).id}
OwnedContacts(table, un) ==
    {c \in RowsOf(table) : AddressBooks[c.address_book_id].user_id = UserNamed(un).id}

\* C27: a step in which an event or contact in a collection of a user is
\* created, changed or deleted serves a request of that user; a PUT of
\* another user to a path of their own with the same resource id leaves the
\* row as it is.
C27_NoCrossUserWrite ==
    [][ \A un \in {s_alice, s_bob} :
          (\/ OwnedEvents(events', un) # OwnedEvents(events, un)
           \/ OwnedContacts(contacts', un) # OwnedContacts(contacts, un))
              => last'.user = un ]_vars

\* C28: a PUT to an event (contact) path with a collection of the user that
\* is answered 201 leaves the row of that id in the collection of the path,
\* and a PROPFIND Depth 1 of that collection lists the href of the Location
\* header, whether the id was new or stored before, in this collection or
\* in another one.
C28_PutLandsInCollection ==
    \A un \in {s_alice, s_bob} :
        /\ \A c \in CalendarsOf(un), rid \in EventIds :
              \A put \in {_dispatch(Put_(AuthOf(un), EventPath(un, c, rid), EvMin), Store)} :
                  put.status = 201 =>
                      /\ put.db.events[rid].calendar_id = c
                      /\ put.headers["Location"] \in
                            ChildHrefs(_dispatch(Propfind_(AuthOf(un), CalendarPath(un, c), "1"),
                                                 put.db))
        /\ \A b \in BooksOf(un), rid \in ContactIds :
              \A put \in {_dispatch(Put_(AuthOf(un), ContactPath(un, b, rid), CtMin), Store)} :
                  put.status = 201 =>
                      /\ put.db.contacts[rid].address_book_id = b
                      /\ put.headers["Location"] \in
                            ChildHrefs(_dispatch(Propfind_(AuthOf(un), BookPath(un, b), "1"),
                                                 put.db))

\* the multiget of the kind that the collection takes, for one href
MultigetOne(isCalendar, href) ==
    IF isCalendar
    THEN XmlDoc(C("calendar-multiget"), {"getetag", "calendar-data"}, <<href>>)
    ELSE XmlDoc(CR("addressbook-multiget"), {"getetag", "address-data"}, <<href>>)

\* a multiget by the user for each child href of a PROPFIND Depth 1 of the
\* collection is answered 207 with a response for that href
HrefsComeBack(un, path, isCalendar) ==
    \A listed \in {_dispatch(Propfind_(AuthOf(un), path, "1"), Store)} :
        /\ listed.status = 207
        /\ \A h \in ChildHrefs(listed) :
              \A resp \in {_dispatch(Report_(AuthOf(un), path, MultigetOne(isCalendar, h)),
                                     Store)} :
                  /\ resp.status = 207
                  /\ ResponsesFor(resp, h) # {}

\* C29: every resource href that a PROPFIND Depth 1 lists for a calendar or
\* address book of the user, sent back by that user in a multiget on the
\* collection, gets a response for that resource, whatever the names begin
\* with.
C29_HrefRoundTrip ==
    \A un \in {s_alice, s_bob} :
        /\ \A c \in CalendarsOf(un) : HrefsComeBack(un, CalendarPath(un, c), TRUE)
        /\ \A b \in BooksOf(un) : HrefsComeBack(un, BookPath(un, b), FALSE)

\* C30: no stored event or contact has the empty id, and no request is
\* routed to an event or contact with the empty resource id.
C30_NoEmptyResourceId ==
    /\ \A id \in DOMAIN events \cup DOMAIN contacts : id # <<>>
    /\ last.rtype \in {"event", "contact"} => last.rid # <<>>

=============================================================================
